---- MODULE Spec2Model ----
(***************************************************************************)
(* Stabolut protocol: the USB token (Token Supply Controller), the         *)
(* Stabolut Engine (Collateral Engine) and the Treasury (Treasury Reserve  *)
(* Manager), as written by src/script.py, src/script_2.py and              *)
(* src/script_4.py, deployed and wired as in setUp() of src/script_5.py.   *)
(*                                                                         *)
(* Every external call of a contract is one atomic transaction: an action  *)
(* either applies all the handler's assignments or, when any require fails *)
(* or an arithmetic operation panics (Solidity 0.8 checked arithmetic),    *)
(* reverts and changes nothing but the observation variable "last", which  *)
(* records the call and its revert reason.                                 *)
(*                                                                         *)
(* Amounts are scaled down (a feed has 1 decimal instead of 8, amounts are *)
(* tens instead of 10^18) so that every integer division of the source     *)
(* still truncates within TLC's integer range.                             *)
(***************************************************************************)
EXTENDS Integers, Sequences, FiniteSets, TLC

(***************************************************************************)
(* Program constants, as written in the source                             *)
(***************************************************************************)
BPS == 10000
MIN_COLLATERAL_RATIO == 15000
CIRCUIT_BREAKER_THRESHOLD == 1000
\* a quote older than this many seconds is stale
MAX_PRICE_AGE == 3600
\* the mock strategy's yield: amount * 5 / 100
YieldNum == 5
YieldDen == 100
\* basis-point parameters that setUp() passes to the initialize() functions
InitTreasuryYieldPercentage == 7000
InitEmergencyThreshold == 1000
InitMinimumReserveRatio == 11000
InitMaxSingleWithdrawal == 1000

(***************************************************************************)
(* Bounds of the model: the amounts, prices and durations of setUp(),      *)
(* scaled down                                                             *)
(***************************************************************************)
\* the mock feeds' decimals
FeedDecimals == 1
InitMaxSupply == 60
InitMintingRateLimit == 6
InitTimelockDuration == 3600
InitMinInterventionInterval == 7200
WethMinDeposit == 1
WethMaxDeposit == 100
UsdcMinDeposit == 2
UsdcMaxDeposit == 100
\* weth.mint(user, ...), usdc.mint(user, ...)
User1Weth == 6
User1Usdc == 3
User2Weth == 3
User2Usdc == 40
InitWethPrice == 10
InitUsdcPrice == 10
\* seconds between two blocks
BlockTime == 3600
\* timestamp of the deployment block
StartTime == 3600
\* number of blocks mined after deployment
MaxBlocks == 2
MaxTime == 7201
\* number of queued Treasury operations
MaxPending == 1
MaxQueued == 2
\* cap on one reserve asset's balance
MaxReserve == 20

ZeroAddr == "zero"
Owner == "owner"
EngineAddr == "engine"
UsbAddr == "usb"
Users == {"user1", "user2"}
Assets == {"weth", "usdc"}
\* the Treasury also knows address(0), which stands for ETH
TreasuryAssets == Assets \cup {ZeroAddr}

Pow10(n) == IF n = 0 THEN 1 ELSE IF n = 1 THEN 10 ELSE IF n = 2 THEN 100 ELSE 1000

VARIABLES
    \* execution substrate and oracle
    now, blockNumber, price, updatedAt,
    \* USBStablecoin
    totalSupply, balances, maxSupply, mintingRateLimit, lastMintBlock,
    currentBlockMinted, tokenPaused,
    \* StabolutEngine
    supportedTokens, priceFeeds, userDeposits, totalValueLocked, totalYieldGenerated,
    treasuryYieldPercentage, emergencyThreshold, enginePaused, engineCall,
    \* MockDeltaNeutralStrategy and the MockERC20 collateral held by the users
    strategyValue, wallet,
    \* Treasury
    reserveAssets, supportedAssets, treasuryPriceFeeds, totalReservesUSD, minimumReserveRatio,
    maxSingleWithdrawal, timelockDuration, pendingOperations,
    circuitBreakerActive, treasuryPaused, treasuryCall, lastDepegIntervention,
    treasuryGovernors,
    \* the last call and its outcome
    last

envVars == <<now, blockNumber, price, updatedAt>>
tokenVars == <<totalSupply, balances, maxSupply, mintingRateLimit, lastMintBlock,
               currentBlockMinted, tokenPaused>>
engineVars == <<supportedTokens, priceFeeds, userDeposits, totalValueLocked, totalYieldGenerated,
                treasuryYieldPercentage, emergencyThreshold, enginePaused, engineCall, strategyValue, wallet>>
treasuryVars == <<reserveAssets, supportedAssets, treasuryPriceFeeds, totalReservesUSD,
                  minimumReserveRatio, maxSingleWithdrawal, timelockDuration,
                  pendingOperations, circuitBreakerActive, treasuryPaused, treasuryCall,
                  lastDepegIntervention,
                  treasuryGovernors>>
vars == <<envVars, tokenVars, engineVars, treasuryVars, last>>

OK == "ok"
DivByZero == "panic: division by zero"
Underflow == "panic: arithmetic underflow"
MissingRole == "AccessControl: missing role"
Paused == "Pausable: paused"
NotPaused == "Pausable: not paused"
Reentrant == "ReentrancyGuard: reentrant call"

\* ReentrancyGuard: _status is NOT_ENTERED exactly when no call of the contract
\* is in progress
NoCall == [op |-> "none"]

\* the call, the amount it was called with (0 where it takes none), its revert
\* reason or "ok"
Outcome(op, amount, err) == [op |-> op, amount |-> amount, err |-> err]

(***************************************************************************)
(* Roles, as granted by the three initialize() functions and setUp()       *)
(***************************************************************************)
TokenMinters == {Owner, EngineAddr}
TokenAdmins == {Owner}
TokenPausers == {Owner}
TreasuryManagers == {Owner}
\* GOVERNOR_ROLE is granted by no initialize(); its holders are those the admin
\* has granted it to since
TreasuryGovernors == treasuryGovernors
TreasuryEmergency == {Owner}
TreasuryAdmins == {Owner}
EngineEmergency == {Owner}
EngineAdmins == {Owner}

(***************************************************************************)
(* USBStablecoin                                                           *)
(***************************************************************************)
\* (mutation: the cap compared with the supply before the mint)
ExceedsMaxSupplyBeforeMint(supply, amount, cap) == supply > cap

\* require(totalSupply() + amount <= maxSupply)
ExceedsMaxSupply(supply, amount, cap) == supply + amount > cap

\* if (block.number != lastMintBlock) { lastMintBlock = block.number; currentBlockMinted = 0; }
MintedThisBlock == IF blockNumber # lastMintBlock THEN 0 ELSE currentBlockMinted

\* require(currentBlockMinted + amount <= mintingRateLimit)
ExceedsRateLimit(minted, amount, limit) == minted + amount > limit

\* uint256 supplyIncreasePercentage = (amount * 10000) / totalSupply();
SupplyIncreasePercentage(amount, supply) == (amount * BPS) \div supply

\* (mutation: the breaker also trips at the threshold itself)
BreakerTripsAtThreshold(amount, supply) ==
    SupplyIncreasePercentage(amount, supply) >= CIRCUIT_BREAKER_THRESHOLD

\* if (supplyIncreasePercentage > CIRCUIT_BREAKER_THRESHOLD) revert
BreakerTrips(amount, supply) ==
    SupplyIncreasePercentage(amount, supply) > CIRCUIT_BREAKER_THRESHOLD

\* (mutation: the circuit breaker is skipped while nothing has been minted)
MintErrZeroGuard(caller, to, amount) ==
    IF caller \notin TokenMinters THEN MissingRole
    ELSE IF tokenPaused THEN Paused
    ELSE IF to = ZeroAddr THEN "USB: mint to zero address"
    ELSE IF amount <= 0 THEN "USB: amount must be positive"
    ELSE IF ExceedsMaxSupply(totalSupply, amount, maxSupply) THEN "USB: exceeds max supply"
    ELSE IF ExceedsRateLimit(MintedThisBlock, amount, mintingRateLimit)
         THEN "USB: exceeds minting rate limit"
    ELSE IF totalSupply = 0 THEN OK
    ELSE IF BreakerTrips(amount, totalSupply) THEN "USB: circuit breaker triggered"
    ELSE OK

MintErr(caller, to, amount) ==
    IF caller \notin TokenMinters THEN MissingRole
    ELSE IF tokenPaused THEN Paused
    ELSE IF to = ZeroAddr THEN "USB: mint to zero address"
    ELSE IF amount <= 0 THEN "USB: amount must be positive"
    ELSE IF ExceedsMaxSupply(totalSupply, amount, maxSupply) THEN "USB: exceeds max supply"
    ELSE IF ExceedsRateLimit(MintedThisBlock, amount, mintingRateLimit)
         THEN "USB: exceeds minting rate limit"
    ELSE IF totalSupply = 0 THEN DivByZero
    ELSE IF BreakerTrips(amount, totalSupply) THEN "USB: circuit breaker triggered"
    ELSE OK

\* (mutation: _mint credits one unit more than the amount asked for)
MintEffectOneMore(to, amount) ==
    /\ lastMintBlock' = blockNumber
    /\ currentBlockMinted' = MintedThisBlock + amount
    /\ totalSupply' = totalSupply + amount + 1
    /\ balances' = [balances EXCEPT ![to] = @ + amount + 1]
    /\ UNCHANGED <<maxSupply, mintingRateLimit, tokenPaused>>

\* currentBlockMinted += amount; _mint(to, amount);
MintEffect(to, amount) ==
    /\ lastMintBlock' = blockNumber
    /\ currentBlockMinted' = MintedThisBlock + amount
    /\ totalSupply' = totalSupply + amount
    /\ balances' = [balances EXCEPT ![to] = @ + amount]
    /\ UNCHANGED <<maxSupply, mintingRateLimit, tokenPaused>>

\* (mutation: a burn of the holder's whole balance is refused)
BurnFromErrKeepsOne(caller, from, amount) ==
    IF caller \notin TokenMinters THEN MissingRole
    ELSE IF tokenPaused THEN Paused
    ELSE IF from = ZeroAddr THEN "USB: burn from zero address"
    ELSE IF amount <= 0 THEN "USB: amount must be positive"
    ELSE IF balances[from] <= amount THEN "USB: insufficient balance"
    ELSE OK

\* (mutation: burnFrom carries no whenNotPaused)
BurnFromErrWhilePaused(caller, from, amount) ==
    IF caller \notin TokenMinters THEN MissingRole
    ELSE IF from = ZeroAddr THEN "USB: burn from zero address"
    ELSE IF amount <= 0 THEN "USB: amount must be positive"
    ELSE IF balances[from] < amount THEN "USB: insufficient balance"
    ELSE OK

BurnFromErr(caller, from, amount) ==
    IF caller \notin TokenMinters THEN MissingRole
    ELSE IF tokenPaused THEN Paused
    ELSE IF from = ZeroAddr THEN "USB: burn from zero address"
    ELSE IF amount <= 0 THEN "USB: amount must be positive"
    ELSE IF balances[from] < amount THEN "USB: insufficient balance"
    ELSE OK

\* _burn(from, amount)
BurnEffect(from, amount) ==
    /\ totalSupply' = totalSupply - amount
    /\ balances' = [balances EXCEPT ![from] = @ - amount]
    /\ UNCHANGED <<maxSupply, mintingRateLimit, lastMintBlock, currentBlockMinted,
                   tokenPaused>>

\* require(_maxSupply >= totalSupply())
MaxSupplyTooLow(newCap, supply) == newCap < supply

SetMaxSupplyErr(caller, newCap) ==
    IF caller \notin TokenAdmins THEN MissingRole
    ELSE IF MaxSupplyTooLow(newCap, totalSupply) THEN "USB: max supply too low"
    ELSE OK

(***************************************************************************)
(* Price feeds (MockChainlinkAggregator) and the two contracts' lookups    *)
(***************************************************************************)
\* (mutation: a quote of age exactly MAX_PRICE_AGE counts as stale)
QuoteErrAtMaxAge(asset, who) ==
    IF price[asset] <= 0 THEN who \o ": invalid price"
    ELSE IF now - updatedAt[asset] >= MAX_PRICE_AGE THEN who \o ": stale price"
    ELSE OK

\* require(price > 0); require(block.timestamp - updatedAt <= 3600)
QuoteErr(asset, who) ==
    IF price[asset] <= 0 THEN who \o ": invalid price"
    ELSE IF now - updatedAt[asset] > MAX_PRICE_AGE THEN who \o ": stale price"
    ELSE OK

\* (amount * uint256(price)) / (10 ** decimals)
ToUSD(asset, amount) == (amount * price[asset]) \div Pow10(FeedDecimals)

\* StabolutEngine._getTokenValueInUSD: the quote of priceFeeds[token]; a feed is
\* named by the asset it was deployed for
TokenValueErr(token) ==
    IF priceFeeds[token] = ZeroAddr THEN "Engine: no price feed"
    ELSE QuoteErr(priceFeeds[token], "Engine")
TokenValueInUSD(token, amount) == ToUSD(priceFeeds[token], amount)

\* (mutation: one unit of the token more than the USD value buys)
USDValueInTokenOneMore(token, usdValue) ==
    (usdValue * Pow10(FeedDecimals)) \div price[priceFeeds[token]] + 1

\* StabolutEngine._getUSDValueInToken
USDValueInToken(token, usdValue) ==
    (usdValue * Pow10(FeedDecimals)) \div price[priceFeeds[token]]

\* Treasury._getAssetValueInUSD: if (amount == 0) return 0 comes before the feed is read
AssetValueErr(asset, amount) ==
    IF amount = 0 THEN OK
    ELSE IF treasuryPriceFeeds[asset] = ZeroAddr THEN "Treasury: no price feed"
    ELSE QuoteErr(treasuryPriceFeeds[asset], "Treasury")
AssetValueInUSD(asset, amount) ==
    IF amount = 0 THEN 0 ELSE ToUSD(treasuryPriceFeeds[asset], amount)

(***************************************************************************)
(* Treasury: reserves                                                      *)
(***************************************************************************)
RECURSIVE ReservesErrFrom(_, _)
\* _updateTotalReservesUSD: the first revert of the loop over supportedAssets,
\* with the balances bal
ReservesErrFrom(bal, i) ==
    IF i > Len(supportedAssets) THEN OK
    ELSE IF AssetValueErr(supportedAssets[i], bal[supportedAssets[i]]) # OK
         THEN AssetValueErr(supportedAssets[i], bal[supportedAssets[i]])
    ELSE ReservesErrFrom(bal, i + 1)
ReservesErr(bal) == ReservesErrFrom(bal, 1)

RECURSIVE ReservesUSDFrom(_, _)
ReservesUSDFrom(bal, i) ==
    IF i > Len(supportedAssets) THEN 0
    ELSE AssetValueInUSD(supportedAssets[i], bal[supportedAssets[i]])
         + ReservesUSDFrom(bal, i + 1)
\* _updateTotalReservesUSD: the total it stores, with the balances bal
ReservesUSD(bal) == ReservesUSDFrom(bal, 1)

Balances == [a \in TreasuryAssets |-> reserveAssets[a].balance]

\* _updateAssetAllocation: the allocation it stores for asset, given the new total
AllocationOf(asset, bal, total) ==
    IF total = 0 THEN 0 ELSE (AssetValueInUSD(asset, bal) * BPS) \div total

\* the tail shared by deposit and executeWithdrawal: the balance of asset becomes
\* newBal, then _updateTotalReservesUSD() and _updateAssetAllocation(asset)
ReservesAfter(asset, newBal) ==
    LET bal == [Balances EXCEPT ![asset] = newBal]
        total == ReservesUSD(bal)
    IN  [assets |-> [reserveAssets EXCEPT
                        ![asset].balance = newBal,
                        ![asset].currentAllocation = AllocationOf(asset, newBal, total)],
         total |-> total]

\* (mutation: only the asset touched is valued again)
ReservesAfterErrTouchedOnly(asset, newBal) == AssetValueErr(asset, newBal)

ReservesAfterErr(asset, newBal) == ReservesErr([Balances EXCEPT ![asset] = newBal])

\* Treasury.deposit(asset, amount) called by caller with msg.value = msgValue
TreasuryDepositErr(caller, asset, amount, msgValue) ==
    IF treasuryCall.op # "none" THEN Reentrant
    ELSE IF treasuryPaused THEN Paused
    ELSE IF caller \notin TreasuryManagers /\ caller # UsbAddr THEN "Treasury: unauthorized"
    ELSE IF asset = ZeroAddr /\ msgValue # amount THEN "Treasury: ETH amount mismatch"
    ELSE IF asset = ZeroAddr /\ ~reserveAssets[asset].isSupported
         THEN "Treasury: ETH not supported"
    ELSE IF asset # ZeroAddr /\ msgValue # 0 THEN "Treasury: no ETH expected"
    ELSE IF asset # ZeroAddr /\ ~reserveAssets[asset].isSupported
         THEN "Treasury: asset not supported"
    ELSE IF asset # ZeroAddr /\ amount <= 0 THEN "Treasury: amount must be positive"
    ELSE ReservesAfterErr(asset, reserveAssets[asset].balance + amount)

TreasuryDepositEffect(asset, amount) ==
    LET after == ReservesAfter(asset, reserveAssets[asset].balance + amount)
    IN  /\ reserveAssets' = after.assets
        /\ totalReservesUSD' = after.total
        /\ UNCHANGED <<supportedAssets, treasuryPriceFeeds, minimumReserveRatio, maxSingleWithdrawal,
                       timelockDuration, pendingOperations, circuitBreakerActive,
                       treasuryPaused, treasuryCall, lastDepegIntervention,
                       treasuryGovernors>>

(***************************************************************************)
(* StabolutEngine                                                          *)
(***************************************************************************)
\* (mutation: USB minted at par with the USD value)
UsbToMintAtPar(usdValue) == usdValue

\* uint256 usbToMint = (usdValue * 10000) / MIN_COLLATERAL_RATIO;
UsbToMint(usdValue) == (usdValue * BPS) \div MIN_COLLATERAL_RATIO

\* uint256 usdValue = (usbAmount * MIN_COLLATERAL_RATIO) / 10000;
UsdForUsb(usbAmount) == (usbAmount * MIN_COLLATERAL_RATIO) \div BPS

\* MockDeltaNeutralStrategy.deposit: yield = amount * 5 / 100
StrategyYield(amount) == (amount * YieldNum) \div YieldDen

\* _distributeYield: treasuryAmount = (yieldAmount * treasuryYieldPercentage) / 10000
TreasuryShare(yieldAmount) == (yieldAmount * treasuryYieldPercentage) \div BPS

RECURSIVE CollateralErrFrom(_, _)
\* _getUserTotalCollateralValue: the first revert of the loop over collateralTokens
CollateralErrFrom(user, i) ==
    LET toks == userDeposits[user].collateralTokens
    IN  IF i > Len(toks) THEN OK
        ELSE IF userDeposits[user].collateralAmounts[toks[i]] > 0
                /\ TokenValueErr(toks[i]) # OK
             THEN TokenValueErr(toks[i])
        ELSE CollateralErrFrom(user, i + 1)

RECURSIVE CollateralValueFrom(_, _, _)
\* the loop of _getUserTotalCollateralValue over the list toks, with amounts amt
CollateralValueFrom(toks, amt, i) ==
    IF i > Len(toks) THEN 0
    ELSE (IF amt[toks[i]] > 0 THEN TokenValueInUSD(toks[i], amt[toks[i]]) ELSE 0)
         + CollateralValueFrom(toks, amt, i + 1)

UserTotalCollateralValue(user) ==
    CollateralValueFrom(userDeposits[user].collateralTokens,
                        userDeposits[user].collateralAmounts, 1)

\* the loop of deposit that looks for token in collateralTokens
TokenExists(toks, token) == \E i \in 1..Len(toks) : toks[i] = token

\* supportedTokens[token].isSupported; a token that was never added reads as the
\* mapping's default, false
TokenSupported(token) ==
    token \in DOMAIN supportedTokens /\ supportedTokens[token].isSupported

\* (mutation: the ratio left behind is not compared with the minimum)
RatioNeverTooLow(remainingCollateralValue, remainingUSD) == FALSE

\* the collateralization check of withdraw, remainingUSD > 0:
\* (remainingCollateralValue * 10000) / remainingUSD >= MIN_COLLATERAL_RATIO
RatioTooLow(remainingCollateralValue, remainingUSD) ==
    (remainingCollateralValue * BPS) \div remainingUSD < MIN_COLLATERAL_RATIO

\* (mutation: an amount equal to minDepositAmount counts as too small)
DepositErrStrictMin(user, token, amount) ==
    LET usdValue == TokenValueInUSD(token, amount)
        share == TreasuryShare(StrategyYield(amount))
    IN  IF engineCall.op # "none" THEN Reentrant
        ELSE IF enginePaused THEN Paused
        ELSE IF ~TokenSupported(token) THEN "Engine: token not supported"
        ELSE IF amount <= supportedTokens[token].minDepositAmount
             THEN "Engine: amount too small"
        ELSE IF amount > supportedTokens[token].maxDepositAmount
             THEN "Engine: amount too large"
        ELSE IF wallet[user][token] < amount THEN "ERC20: transfer amount exceeds balance"
        ELSE IF TokenValueErr(token) # OK THEN TokenValueErr(token)
        ELSE IF usdValue <= 0 THEN "Engine: invalid price"
        ELSE IF share > 0 /\ TreasuryDepositErr(EngineAddr, ZeroAddr, share, 0) # OK
             THEN TreasuryDepositErr(EngineAddr, ZeroAddr, share, 0)
        ELSE MintErr(EngineAddr, user, UsbToMint(usdValue))

\* (mutation: deposit without the whenNotPaused modifier)
DepositErrWhilePaused(user, token, amount) ==
    LET usdValue == TokenValueInUSD(token, amount)
        share == TreasuryShare(StrategyYield(amount))
    IN  IF engineCall.op # "none" THEN Reentrant
        ELSE IF ~TokenSupported(token) THEN "Engine: token not supported"
        ELSE IF amount < supportedTokens[token].minDepositAmount
             THEN "Engine: amount too small"
        ELSE IF amount > supportedTokens[token].maxDepositAmount
             THEN "Engine: amount too large"
        ELSE IF wallet[user][token] < amount THEN "ERC20: transfer amount exceeds balance"
        ELSE IF TokenValueErr(token) # OK THEN TokenValueErr(token)
        ELSE IF usdValue <= 0 THEN "Engine: invalid price"
        ELSE IF share > 0 /\ TreasuryDepositErr(EngineAddr, ZeroAddr, share, 0) # OK
             THEN TreasuryDepositErr(EngineAddr, ZeroAddr, share, 0)
        ELSE MintErr(EngineAddr, user, UsbToMint(usdValue))

DepositErr(user, token, amount) ==
    LET usdValue == TokenValueInUSD(token, amount)
        share == TreasuryShare(StrategyYield(amount))
    IN  IF engineCall.op # "none" THEN Reentrant
        ELSE IF enginePaused THEN Paused
        ELSE IF ~TokenSupported(token) THEN "Engine: token not supported"
        ELSE IF amount < supportedTokens[token].minDepositAmount
             THEN "Engine: amount too small"
        ELSE IF amount > supportedTokens[token].maxDepositAmount
             THEN "Engine: amount too large"
        ELSE IF wallet[user][token] < amount THEN "ERC20: transfer amount exceeds balance"
        ELSE IF TokenValueErr(token) # OK THEN TokenValueErr(token)
        ELSE IF usdValue <= 0 THEN "Engine: invalid price"
        ELSE IF share > 0 /\ TreasuryDepositErr(EngineAddr, ZeroAddr, share, 0) # OK
             THEN TreasuryDepositErr(EngineAddr, ZeroAddr, share, 0)
        ELSE MintErr(EngineAddr, user, UsbToMint(usdValue))

\* (mutation: the token amount is not compared with the collateral held)
WithdrawErrOverdraw(user, token, usbAmount) ==
    LET d == userDeposits[user]
        usdValue == UsdForUsb(usbAmount)
        tokenAmount == USDValueInToken(token, usdValue)
        remainingUSD == d.usbMinted - usbAmount
    IN  IF engineCall.op # "none" THEN Reentrant
        ELSE IF enginePaused THEN Paused
        ELSE IF ~TokenSupported(token) THEN "Engine: token not supported"
        ELSE IF usbAmount <= 0 THEN "Engine: amount must be positive"
        ELSE IF d.usbMinted < usbAmount THEN "Engine: insufficient USB balance"
        ELSE IF d.collateralAmounts[token] <= 0 THEN "Engine: no collateral for token"
        ELSE IF TokenValueErr(token) # OK THEN TokenValueErr(token)
        ELSE IF remainingUSD > 0 /\ CollateralErrFrom(user, 1) # OK
             THEN CollateralErrFrom(user, 1)
        ELSE IF remainingUSD > 0 /\ UserTotalCollateralValue(user) < usdValue
             THEN Underflow
        ELSE IF remainingUSD > 0
                /\ RatioTooLow(UserTotalCollateralValue(user) - usdValue, remainingUSD)
             THEN "Engine: insufficient collateralization"
        ELSE IF BurnFromErr(EngineAddr, user, usbAmount) # OK
             THEN BurnFromErr(EngineAddr, user, usbAmount)
        ELSE IF strategyValue < tokenAmount THEN Underflow
        ELSE IF totalValueLocked < usdValue THEN Underflow
        ELSE OK

\* (mutation: withdraw without the nonReentrant modifier)
WithdrawErrNoGuard(user, token, usbAmount) ==
    LET d == userDeposits[user]
        usdValue == UsdForUsb(usbAmount)
        tokenAmount == USDValueInToken(token, usdValue)
        remainingUSD == d.usbMinted - usbAmount
    IN  IF enginePaused THEN Paused
        ELSE IF ~TokenSupported(token) THEN "Engine: token not supported"
        ELSE IF usbAmount <= 0 THEN "Engine: amount must be positive"
        ELSE IF d.usbMinted < usbAmount THEN "Engine: insufficient USB balance"
        ELSE IF d.collateralAmounts[token] <= 0 THEN "Engine: no collateral for token"
        ELSE IF TokenValueErr(token) # OK THEN TokenValueErr(token)
        ELSE IF tokenAmount > d.collateralAmounts[token]
             THEN "Engine: insufficient collateral"
        ELSE IF remainingUSD > 0 /\ CollateralErrFrom(user, 1) # OK
             THEN CollateralErrFrom(user, 1)
        ELSE IF remainingUSD > 0 /\ UserTotalCollateralValue(user) < usdValue
             THEN Underflow
        ELSE IF remainingUSD > 0
                /\ RatioTooLow(UserTotalCollateralValue(user) - usdValue, remainingUSD)
             THEN "Engine: insufficient collateralization"
        ELSE IF BurnFromErr(EngineAddr, user, usbAmount) # OK
             THEN BurnFromErr(EngineAddr, user, usbAmount)
        ELSE IF strategyValue < tokenAmount THEN Underflow
        ELSE IF totalValueLocked < usdValue THEN Underflow
        ELSE OK

WithdrawErr(user, token, usbAmount) ==
    LET d == userDeposits[user]
        usdValue == UsdForUsb(usbAmount)
        tokenAmount == USDValueInToken(token, usdValue)
        remainingUSD == d.usbMinted - usbAmount
    IN  IF engineCall.op # "none" THEN Reentrant
        ELSE IF enginePaused THEN Paused
        ELSE IF ~TokenSupported(token) THEN "Engine: token not supported"
        ELSE IF usbAmount <= 0 THEN "Engine: amount must be positive"
        ELSE IF d.usbMinted < usbAmount THEN "Engine: insufficient USB balance"
        ELSE IF d.collateralAmounts[token] <= 0 THEN "Engine: no collateral for token"
        ELSE IF TokenValueErr(token) # OK THEN TokenValueErr(token)
        ELSE IF tokenAmount > d.collateralAmounts[token]
             THEN "Engine: insufficient collateral"
        ELSE IF remainingUSD > 0 /\ CollateralErrFrom(user, 1) # OK
             THEN CollateralErrFrom(user, 1)
        ELSE IF remainingUSD > 0 /\ UserTotalCollateralValue(user) < usdValue
             THEN Underflow
        ELSE IF remainingUSD > 0
                /\ RatioTooLow(UserTotalCollateralValue(user) - usdValue, remainingUSD)
             THEN "Engine: insufficient collateralization"
        ELSE IF BurnFromErr(EngineAddr, user, usbAmount) # OK
             THEN BurnFromErr(EngineAddr, user, usbAmount)
        ELSE IF strategyValue < tokenAmount THEN Underflow
        ELSE IF totalValueLocked < usdValue THEN Underflow
        ELSE OK

(***************************************************************************)
(* Inputs                                                                  *)
(***************************************************************************)
Callers == {Owner, "user1"}
MintAmounts == {0, 1, 2, 4, 6, 7}
OwnerMintAmounts == {2}
CapChoices == {3, 46, 60}
LimitChoices == {3, 6}
DepositAmounts ==
    [u \in Users |-> [a \in Assets |-> IF u = "user2" /\ a = "usdc" THEN {40} ELSE {3}]]
WithdrawAmounts == [u \in Users |-> IF u = "user1" THEN {10, 40} ELSE {2}]
PriceChoices == [a \in Assets |-> IF a = "weth" THEN {5, 10, 20} ELSE {}]
BadPrices == {0, -1}
WarpChoices == {3600, 3601}
ReserveAmounts == {20}
QueueAmounts == {3, 20}
InterventionAmounts == {0, 3, 20}
Recipients == {Owner, ZeroAddr}
Reasons == {"ops"}
\* the amounts over which the deposit / withdraw arithmetic is compared
RoundTripAmounts == 1..40

(***************************************************************************)
(* Execution substrate and oracle                                          *)
(***************************************************************************)
\* a new block: block.number and block.timestamp advance; blocks, time and
\* feed updates come between transactions, never inside a call in progress
NextBlock ==
    /\ engineCall.op = "none" /\ treasuryCall.op = "none"
    /\ blockNumber < MaxBlocks
    /\ blockNumber' = blockNumber + 1
    /\ now' = now + BlockTime
    /\ last' = Outcome("block", 0, OK)
    /\ UNCHANGED <<price, updatedAt, tokenVars, engineVars, treasuryVars>>

\* vm.warp(block.timestamp + dt): time passes, block.number stays
Warp(dt) ==
    /\ engineCall.op = "none" /\ treasuryCall.op = "none"
    /\ now + dt <= MaxTime
    /\ now' = now + dt
    /\ last' = Outcome("warp", dt, OK)
    /\ UNCHANGED <<blockNumber, price, updatedAt, tokenVars, engineVars, treasuryVars>>

\* MockChainlinkAggregator.updatePrice
UpdatePrice(asset, p) ==
    /\ engineCall.op = "none" /\ treasuryCall.op = "none"
    /\ price' = [price EXCEPT ![asset] = p]
    /\ updatedAt' = [updatedAt EXCEPT ![asset] = now]
    /\ last' = Outcome("updatePrice", p, OK)
    /\ UNCHANGED <<now, blockNumber, tokenVars, engineVars, treasuryVars>>

(***************************************************************************)
(* USBStablecoin: external functions                                       *)
(***************************************************************************)
Mint(caller, to, amount) ==
    /\ last' = Outcome("mint", amount, MintErr(caller, to, amount))
    /\ IF MintErr(caller, to, amount) = OK
       THEN MintEffect(to, amount)
       ELSE UNCHANGED tokenVars
    /\ UNCHANGED <<envVars, engineVars, treasuryVars>>

BurnFrom(caller, from, amount) ==
    /\ last' = Outcome("burnFrom", amount, BurnFromErr(caller, from, amount))
    /\ IF BurnFromErr(caller, from, amount) = OK
       THEN BurnEffect(from, amount)
       ELSE UNCHANGED tokenVars
    /\ UNCHANGED <<envVars, engineVars, treasuryVars>>

SetMaxSupply(caller, newCap) ==
    /\ last' = Outcome("setMaxSupply", newCap, SetMaxSupplyErr(caller, newCap))
    /\ maxSupply' = IF SetMaxSupplyErr(caller, newCap) = OK THEN newCap ELSE maxSupply
    /\ UNCHANGED <<totalSupply, balances, mintingRateLimit, lastMintBlock,
                   currentBlockMinted, tokenPaused>>
    /\ UNCHANGED <<envVars, engineVars, treasuryVars>>

SetMintingRateLimitErr(caller) == IF caller \notin TokenAdmins THEN MissingRole ELSE OK

SetMintingRateLimit(caller, newLimit) ==
    /\ last' = Outcome("setMintingRateLimit", newLimit, SetMintingRateLimitErr(caller))
    /\ mintingRateLimit' =
           IF SetMintingRateLimitErr(caller) = OK THEN newLimit ELSE mintingRateLimit
    /\ UNCHANGED <<totalSupply, balances, maxSupply, lastMintBlock,
                   currentBlockMinted, tokenPaused>>
    /\ UNCHANGED <<envVars, engineVars, treasuryVars>>

(***************************************************************************)
(* StabolutEngine: external functions                                      *)
(***************************************************************************)
\* (mutation: a rejected deposit keeps the collateral that safeTransferFrom moved)
DepositKeepsTransfer(user, token, amount) ==
    LET usdValue == TokenValueInUSD(token, amount)
        yieldGenerated == StrategyYield(amount)
        share == TreasuryShare(yieldGenerated)
        d == userDeposits[user]
    IN  /\ last' = Outcome("deposit", amount, DepositErr(user, token, amount))
        /\ IF DepositErr(user, token, amount) = OK
           THEN /\ userDeposits' = [userDeposits EXCEPT ![user] =
                      [totalDeposited |-> d.totalDeposited + amount,
                       usbMinted |-> d.usbMinted + UsbToMint(usdValue),
                       lastUpdateTimestamp |-> now,
                       collateralTokens |->
                           IF TokenExists(d.collateralTokens, token)
                           THEN d.collateralTokens
                           ELSE Append(d.collateralTokens, token),
                       collateralAmounts |->
                           [d.collateralAmounts EXCEPT ![token] = @ + amount]]]
                /\ totalValueLocked' = totalValueLocked + usdValue
                /\ totalYieldGenerated' = totalYieldGenerated + yieldGenerated
                /\ strategyValue' = strategyValue + amount
                /\ wallet' = [wallet EXCEPT ![user][token] = @ - amount]
                /\ UNCHANGED <<supportedTokens, priceFeeds, treasuryYieldPercentage, emergencyThreshold, enginePaused,
                               engineCall>>
                /\ IF share > 0
                   THEN TreasuryDepositEffect(ZeroAddr, share)
                   ELSE UNCHANGED treasuryVars
                /\ MintEffect(user, UsbToMint(usdValue))
           ELSE /\ wallet' = [wallet EXCEPT ![user][token] =
                               IF @ >= amount THEN @ - amount ELSE @]
                /\ UNCHANGED <<supportedTokens, priceFeeds, userDeposits, totalValueLocked,
                               totalYieldGenerated, treasuryYieldPercentage, emergencyThreshold,
                               enginePaused, engineCall, strategyValue>>
                /\ UNCHANGED <<tokenVars, treasuryVars>>
        /\ UNCHANGED envVars

Deposit(user, token, amount) ==
    LET usdValue == TokenValueInUSD(token, amount)
        yieldGenerated == StrategyYield(amount)
        share == TreasuryShare(yieldGenerated)
        d == userDeposits[user]
    IN  /\ last' = Outcome("deposit", amount, DepositErr(user, token, amount))
        /\ IF DepositErr(user, token, amount) = OK
           THEN /\ userDeposits' = [userDeposits EXCEPT ![user] =
                      [totalDeposited |-> d.totalDeposited + amount,
                       usbMinted |-> d.usbMinted + UsbToMint(usdValue),
                       lastUpdateTimestamp |-> now,
                       collateralTokens |->
                           IF TokenExists(d.collateralTokens, token)
                           THEN d.collateralTokens
                           ELSE Append(d.collateralTokens, token),
                       collateralAmounts |->
                           [d.collateralAmounts EXCEPT ![token] = @ + amount]]]
                /\ totalValueLocked' = totalValueLocked + usdValue
                /\ totalYieldGenerated' = totalYieldGenerated + yieldGenerated
                /\ strategyValue' = strategyValue + amount
                /\ wallet' = [wallet EXCEPT ![user][token] = @ - amount]
                /\ UNCHANGED <<supportedTokens, priceFeeds, treasuryYieldPercentage, emergencyThreshold, enginePaused,
                               engineCall>>
                /\ IF share > 0
                   THEN TreasuryDepositEffect(ZeroAddr, share)
                   ELSE UNCHANGED treasuryVars
                /\ MintEffect(user, UsbToMint(usdValue))
           ELSE UNCHANGED <<tokenVars, engineVars, treasuryVars>>
        /\ UNCHANGED envVars

\* (mutation: the position keeps its usbMinted while the tokens are burnt)
WithdrawKeepsMinted(user, token, usbAmount) ==
    LET d == userDeposits[user]
        usdValue == UsdForUsb(usbAmount)
        tokenAmount == USDValueInToken(token, usdValue)
    IN  /\ last' = Outcome("withdraw", usbAmount, WithdrawErr(user, token, usbAmount))
        /\ IF WithdrawErr(user, token, usbAmount) = OK
           THEN /\ BurnEffect(user, usbAmount)
                /\ strategyValue' = strategyValue - tokenAmount
                /\ userDeposits' = [userDeposits EXCEPT ![user] =
                      [d EXCEPT !.collateralAmounts[token] = @ - tokenAmount,
                                !.lastUpdateTimestamp = now]]
                /\ totalValueLocked' = totalValueLocked - usdValue
                /\ UNCHANGED <<supportedTokens, priceFeeds, totalYieldGenerated,
                               treasuryYieldPercentage, emergencyThreshold, enginePaused, engineCall, wallet>>
           ELSE UNCHANGED <<tokenVars, engineVars>>
        /\ UNCHANGED <<envVars, treasuryVars>>

\* (mutation: withdraw takes the collateral returned off totalDeposited)
WithdrawReducesDeposited(user, token, usbAmount) ==
    LET d == userDeposits[user]
        usdValue == UsdForUsb(usbAmount)
        tokenAmount == USDValueInToken(token, usdValue)
    IN  /\ last' = Outcome("withdraw", usbAmount, WithdrawErr(user, token, usbAmount))
        /\ IF WithdrawErr(user, token, usbAmount) = OK
           THEN /\ BurnEffect(user, usbAmount)
                /\ strategyValue' = strategyValue - tokenAmount
                /\ userDeposits' = [userDeposits EXCEPT ![user] =
                      [d EXCEPT !.usbMinted = @ - usbAmount,
                                !.totalDeposited = @ - tokenAmount,
                                !.collateralAmounts[token] = @ - tokenAmount,
                                !.lastUpdateTimestamp = now]]
                /\ totalValueLocked' = totalValueLocked - usdValue
                /\ UNCHANGED <<supportedTokens, priceFeeds, totalYieldGenerated,
                               treasuryYieldPercentage, emergencyThreshold, enginePaused, engineCall, wallet>>
           ELSE UNCHANGED <<tokenVars, engineVars>>
        /\ UNCHANGED <<envVars, treasuryVars>>

Withdraw(user, token, usbAmount) ==
    LET d == userDeposits[user]
        usdValue == UsdForUsb(usbAmount)
        tokenAmount == USDValueInToken(token, usdValue)
    IN  /\ last' = Outcome("withdraw", usbAmount, WithdrawErr(user, token, usbAmount))
        /\ IF WithdrawErr(user, token, usbAmount) = OK
           THEN /\ BurnEffect(user, usbAmount)
                /\ strategyValue' = strategyValue - tokenAmount
                /\ userDeposits' = [userDeposits EXCEPT ![user] =
                      [d EXCEPT !.usbMinted = @ - usbAmount,
                                !.collateralAmounts[token] = @ - tokenAmount,
                                !.lastUpdateTimestamp = now]]
                /\ totalValueLocked' = totalValueLocked - usdValue
                /\ UNCHANGED <<supportedTokens, priceFeeds, totalYieldGenerated,
                               treasuryYieldPercentage, emergencyThreshold, enginePaused, engineCall, wallet>>
           ELSE UNCHANGED <<tokenVars, engineVars>>
        /\ UNCHANGED <<envVars, treasuryVars>>

(***************************************************************************)
(* Engine: addSupportedToken and updateParameters                          *)
(***************************************************************************)
AddSupportedTokenErr(caller, token, minDeposit, maxDeposit, priceFeed) ==
    IF caller \notin EngineAdmins THEN MissingRole
    ELSE IF token = ZeroAddr THEN "Engine: invalid token"
    ELSE IF priceFeed = ZeroAddr THEN "Engine: invalid price feed"
    ELSE IF maxDeposit <= minDeposit THEN "Engine: invalid deposit limits"
    ELSE OK

\* supportedTokens[token] and priceFeeds[token] are assigned whatever they held
AddSupportedToken(caller, token, minDeposit, maxDeposit, liquidationThreshold, stabilityFee, priceFeed) ==
    LET err == AddSupportedTokenErr(caller, token, minDeposit, maxDeposit, priceFeed)
    IN  /\ last' = Outcome("addSupportedToken", 0, err)
        /\ IF err = OK
           THEN /\ supportedTokens' = [supportedTokens EXCEPT ![token] =
                      [isSupported |-> TRUE, minDepositAmount |-> minDeposit,
                       maxDepositAmount |-> maxDeposit,
                       liquidationThreshold |-> liquidationThreshold,
                       stabilityFee |-> stabilityFee]]
                /\ priceFeeds' = [priceFeeds EXCEPT ![token] = priceFeed]
                /\ UNCHANGED <<userDeposits, totalValueLocked, totalYieldGenerated,
                               treasuryYieldPercentage, emergencyThreshold,
                               enginePaused, engineCall, strategyValue, wallet>>
           ELSE UNCHANGED engineVars
        /\ UNCHANGED <<envVars, tokenVars, treasuryVars>>

UpdateParametersErr(caller, yieldPercentage) ==
    IF caller \notin EngineAdmins THEN MissingRole
    ELSE IF yieldPercentage > BPS THEN "Engine: invalid yield percentage"
    ELSE OK

UpdateParameters(caller, yieldPercentage, threshold) ==
    /\ last' = Outcome("updateParameters", 0, UpdateParametersErr(caller, yieldPercentage))
    /\ IF UpdateParametersErr(caller, yieldPercentage) = OK
       THEN /\ treasuryYieldPercentage' = yieldPercentage
            /\ emergencyThreshold' = threshold
            /\ UNCHANGED <<supportedTokens, priceFeeds, userDeposits, totalValueLocked,
                           totalYieldGenerated, enginePaused, engineCall,
                           strategyValue, wallet>>
       ELSE UNCHANGED engineVars
    /\ UNCHANGED <<envVars, tokenVars, treasuryVars>>

(***************************************************************************)
(* USBStablecoin: pause and unpause                                        *)
(***************************************************************************)
\* pause(): onlyRole(PAUSER_ROLE), then _pause(), which requires that the
\* contract is not paused
TokenPauseErr(caller) ==
    IF caller \notin TokenPausers THEN MissingRole
    ELSE IF tokenPaused THEN Paused
    ELSE OK

TokenPause(caller) ==
    /\ last' = Outcome("tokenPause", 0, TokenPauseErr(caller))
    /\ tokenPaused' = IF TokenPauseErr(caller) = OK THEN TRUE ELSE tokenPaused
    /\ UNCHANGED <<totalSupply, balances, maxSupply, mintingRateLimit, lastMintBlock,
                   currentBlockMinted>>
    /\ UNCHANGED <<envVars, engineVars, treasuryVars>>

\* unpause(): onlyRole(PAUSER_ROLE), then _unpause(), which requires that the
\* contract is paused
TokenUnpauseErr(caller) ==
    IF caller \notin TokenPausers THEN MissingRole
    ELSE IF ~tokenPaused THEN NotPaused
    ELSE OK

TokenUnpause(caller) ==
    /\ last' = Outcome("tokenUnpause", 0, TokenUnpauseErr(caller))
    /\ tokenPaused' = IF TokenUnpauseErr(caller) = OK THEN FALSE ELSE tokenPaused
    /\ UNCHANGED <<totalSupply, balances, maxSupply, mintingRateLimit, lastMintBlock,
                   currentBlockMinted>>
    /\ UNCHANGED <<envVars, engineVars, treasuryVars>>

(***************************************************************************)
(* Engine: emergencyPause and unpause                                      *)
(***************************************************************************)
\* emergencyPause(reason): onlyRole(EMERGENCY_ROLE), then _pause(), which
\* requires that the contract is not paused
EmergencyPauseErr(caller) ==
    IF caller \notin EngineEmergency THEN MissingRole
    ELSE IF enginePaused THEN Paused
    ELSE OK

EmergencyPause(caller) ==
    /\ last' = Outcome("emergencyPause", 0, EmergencyPauseErr(caller))
    /\ IF EmergencyPauseErr(caller) = OK
       THEN /\ enginePaused' = TRUE
            /\ UNCHANGED <<supportedTokens, priceFeeds, userDeposits, totalValueLocked,
                           totalYieldGenerated, treasuryYieldPercentage, emergencyThreshold,
                           engineCall, strategyValue, wallet>>
       ELSE UNCHANGED engineVars
    /\ UNCHANGED <<envVars, tokenVars, treasuryVars>>

\* unpause(): onlyRole(DEFAULT_ADMIN_ROLE), then _unpause(), which requires
\* that the contract is paused
UnpauseErr(caller) ==
    IF caller \notin EngineAdmins THEN MissingRole
    ELSE IF ~enginePaused THEN NotPaused
    ELSE OK

Unpause(caller) ==
    /\ last' = Outcome("unpause", 0, UnpauseErr(caller))
    /\ IF UnpauseErr(caller) = OK
       THEN /\ enginePaused' = FALSE
            /\ UNCHANGED <<supportedTokens, priceFeeds, userDeposits, totalValueLocked,
                           totalYieldGenerated, treasuryYieldPercentage, emergencyThreshold,
                           engineCall, strategyValue, wallet>>
       ELSE UNCHANGED engineVars
    /\ UNCHANGED <<envVars, tokenVars, treasuryVars>>

(***************************************************************************)
(* Engine: deposit and withdraw step by step, from one call out to the next *)
(***************************************************************************)
\* the statements of deposit before deltaNeutralStrategy.deposit all pass
DepositReachesStrategy(user, token, amount) ==
    /\ engineCall.op = "none"
    /\ ~enginePaused
    /\ TokenSupported(token)
    /\ amount >= supportedTokens[token].minDepositAmount
    /\ amount <= supportedTokens[token].maxDepositAmount
    /\ wallet[user][token] >= amount
    /\ TokenValueErr(token) = OK
    /\ TokenValueInUSD(token, amount) > 0

\* deposit up to its call to deltaNeutralStrategy.deposit: nonReentrant has set
\* _status, safeTransferFrom has moved the collateral, the quote has been read;
\* saved is the state the transaction returns to if it reverts later
DepositEnter(user, token, amount) ==
    /\ DepositReachesStrategy(user, token, amount)
    /\ engineCall' = [op |-> "deposit", user |-> user, token |-> token,
                      amount |-> amount, at |-> "strategy.deposit",
                      saved |-> [wallet |-> wallet, strategyValue |-> strategyValue,
                                 userDeposits |-> userDeposits,
                                 totalValueLocked |-> totalValueLocked,
                                 totalYieldGenerated |-> totalYieldGenerated,
                                 reserveAssets |-> reserveAssets,
                                 totalReservesUSD |-> totalReservesUSD]]
    /\ wallet' = [wallet EXCEPT ![user][token] = @ - amount]
    /\ last' = Outcome("strategy.deposit", amount, OK)
    /\ UNCHANGED <<supportedTokens, priceFeeds, userDeposits, totalValueLocked,
                   totalYieldGenerated, treasuryYieldPercentage, emergencyThreshold,
                   enginePaused, strategyValue>>
    /\ UNCHANGED <<envVars, tokenVars, treasuryVars>>

\* deposit from the return of the strategy up to its next call out: the
\* position and the global metrics are updated; _distributeYield calls
\* treasury.deposit if the Treasury's share is positive, otherwise
\* usbToken.mint is next
DepositAdvance ==
    LET c == engineCall
        d == userDeposits[c.user]
        usdValue == TokenValueInUSD(c.token, c.amount)
        next == IF TreasuryShare(StrategyYield(c.amount)) > 0
                THEN "treasury.deposit" ELSE "usbToken.mint"
    IN  /\ c.op = "deposit" /\ c.at = "strategy.deposit"
        /\ engineCall' = [c EXCEPT !.at = next]
        /\ strategyValue' = strategyValue + c.amount
        /\ userDeposits' = [userDeposits EXCEPT ![c.user] =
              [totalDeposited |-> d.totalDeposited + c.amount,
               usbMinted |-> d.usbMinted + UsbToMint(usdValue),
               lastUpdateTimestamp |-> now,
               collateralTokens |->
                   IF TokenExists(d.collateralTokens, c.token)
                   THEN d.collateralTokens
                   ELSE Append(d.collateralTokens, c.token),
               collateralAmounts |->
                   [d.collateralAmounts EXCEPT ![c.token] = @ + c.amount]]]
        /\ totalValueLocked' = totalValueLocked + usdValue
        /\ totalYieldGenerated' = totalYieldGenerated + StrategyYield(c.amount)
        /\ last' = Outcome(next, c.amount, OK)
        /\ UNCHANGED <<supportedTokens, priceFeeds, treasuryYieldPercentage,
                       emergencyThreshold, enginePaused, wallet>>
        /\ UNCHANGED <<envVars, tokenVars, treasuryVars>>

\* a revert inside the deposit in progress: the transaction's writes are undone,
\* nonReentrant's _status with them
DepositRevert(c, err) ==
    /\ engineCall' = NoCall
    /\ wallet' = c.saved.wallet
    /\ strategyValue' = c.saved.strategyValue
    /\ userDeposits' = c.saved.userDeposits
    /\ totalValueLocked' = c.saved.totalValueLocked
    /\ totalYieldGenerated' = c.saved.totalYieldGenerated
    /\ reserveAssets' = c.saved.reserveAssets
    /\ totalReservesUSD' = c.saved.totalReservesUSD
    /\ last' = Outcome("deposit", c.amount, err)
    /\ UNCHANGED <<supportedTokens, priceFeeds, treasuryYieldPercentage,
                   emergencyThreshold, enginePaused>>
    /\ UNCHANGED <<supportedAssets, treasuryPriceFeeds, minimumReserveRatio,
                   maxSingleWithdrawal, timelockDuration, pendingOperations,
                   circuitBreakerActive, treasuryPaused, treasuryCall,
                   lastDepegIntervention,
                   treasuryGovernors>>
    /\ UNCHANGED <<envVars, tokenVars>>

\* _distributeYield's treasury.deposit(address(0), treasuryAmount), called by
\* the Engine with no value attached; usbToken.mint is next if it returns
DepositForward ==
    LET c == engineCall
        share == TreasuryShare(StrategyYield(c.amount))
        err == TreasuryDepositErr(EngineAddr, ZeroAddr, share, 0)
    IN  /\ c.op = "deposit" /\ c.at = "treasury.deposit"
        /\ IF err = OK
           THEN /\ TreasuryDepositEffect(ZeroAddr, share)
                /\ engineCall' = [c EXCEPT !.at = "usbToken.mint"]
                /\ last' = Outcome("usbToken.mint", c.amount, OK)
                /\ UNCHANGED <<supportedTokens, priceFeeds, userDeposits,
                               totalValueLocked, totalYieldGenerated,
                               treasuryYieldPercentage, emergencyThreshold,
                               enginePaused, strategyValue, wallet>>
                /\ UNCHANGED <<envVars, tokenVars>>
           ELSE DepositRevert(c, err)

\* deposit from usbToken.mint to its return: nonReentrant resets _status
DepositExit ==
    LET c == engineCall
        usbToMint == UsbToMint(TokenValueInUSD(c.token, c.amount))
        err == MintErr(EngineAddr, c.user, usbToMint)
    IN  /\ c.op = "deposit" /\ c.at = "usbToken.mint"
        /\ IF err = OK
           THEN /\ MintEffect(c.user, usbToMint)
                /\ engineCall' = NoCall
                /\ last' = Outcome("deposit", c.amount, OK)
                /\ UNCHANGED <<supportedTokens, priceFeeds, userDeposits,
                               totalValueLocked, totalYieldGenerated,
                               treasuryYieldPercentage, emergencyThreshold,
                               enginePaused, strategyValue, wallet>>
                /\ UNCHANGED <<envVars, treasuryVars>>
           ELSE DepositRevert(c, err)

\* withdraw up to its call to deltaNeutralStrategy.withdraw: nonReentrant has
\* set _status, the USB is burned, the position is not updated yet
WithdrawEnter(user, token, usbAmount) ==
    /\ WithdrawErr(user, token, usbAmount) = OK
    /\ engineCall' = [op |-> "withdraw", user |-> user, token |-> token,
                      amount |-> usbAmount, at |-> "strategy.withdraw"]
    /\ BurnEffect(user, usbAmount)
    /\ last' = Outcome("strategy.withdraw", usbAmount, OK)
    /\ UNCHANGED <<supportedTokens, priceFeeds, userDeposits, totalValueLocked,
                   totalYieldGenerated, treasuryYieldPercentage, emergencyThreshold, enginePaused,
                   strategyValue, wallet>>
    /\ UNCHANGED <<envVars, treasuryVars>>

\* withdraw from the return of the strategy to its own return
WithdrawExit ==
    LET c == engineCall
        d == userDeposits[c.user]
        usdValue == UsdForUsb(c.amount)
        tokenAmount == USDValueInToken(c.token, usdValue)
    IN  /\ c.op = "withdraw"
        /\ engineCall' = NoCall
        /\ strategyValue' = strategyValue - tokenAmount
        /\ userDeposits' = [userDeposits EXCEPT ![c.user] =
              [d EXCEPT !.usbMinted = @ - c.amount,
                        !.collateralAmounts[c.token] = @ - tokenAmount,
                        !.lastUpdateTimestamp = now]]
        /\ totalValueLocked' = totalValueLocked - usdValue
        /\ last' = Outcome("withdraw", c.amount, OK)
        /\ UNCHANGED <<supportedTokens, priceFeeds, totalYieldGenerated,
                       treasuryYieldPercentage, emergencyThreshold, enginePaused, wallet>>
        /\ UNCHANGED <<envVars, tokenVars, treasuryVars>>

(***************************************************************************)
(* Treasury: external functions                                            *)
(***************************************************************************)
ZeroOperation ==
    [asset |-> ZeroAddr, amount |-> 0, recipient |-> ZeroAddr, executeAfter |-> 0,
     opType |-> "WITHDRAWAL", executed |-> FALSE, reason |-> ""]

\* pendingOperations[operationId]: a mapping reads zero where nothing was written
OperationAt(id) ==
    IF id \in DOMAIN pendingOperations THEN pendingOperations[id] ELSE ZeroOperation

\* keccak256(abi.encodePacked(asset, amount, recipient, block.timestamp, reason))
OperationId(asset, amount, recipient, timestamp, reason) ==
    <<asset, amount, recipient, timestamp, reason>>

UnknownId == OperationId(ZeroAddr, 0, ZeroAddr, 0, "")

\* uint256 withdrawalPercentage = (amount * 10000) / totalReservesUSD;
WithdrawalPercentage(asset, amount, total) == (amount * BPS) \div total

\* withdrawalPercentage > maxSingleWithdrawal ? block.timestamp + timelockDuration
\*                                             : block.timestamp
ExecuteAfterFor(percentage, t) ==
    IF percentage > maxSingleWithdrawal THEN t + timelockDuration ELSE t

TreasuryDeposit(caller, asset, amount) ==
    LET msgValue == IF asset = ZeroAddr THEN amount ELSE 0
    IN  /\ reserveAssets[asset].balance + amount <= MaxReserve
        /\ last' = Outcome("treasuryDeposit", amount,
                           TreasuryDepositErr(caller, asset, amount, msgValue))
        /\ IF TreasuryDepositErr(caller, asset, amount, msgValue) = OK
           THEN TreasuryDepositEffect(asset, amount)
           ELSE UNCHANGED treasuryVars
        /\ UNCHANGED <<envVars, tokenVars, engineVars>>

QueueWithdrawalErr(caller, asset, amount, recipient) ==
    IF caller \notin TreasuryManagers THEN MissingRole
    ELSE IF ~reserveAssets[asset].isSupported THEN "Treasury: asset not supported"
    ELSE IF amount > reserveAssets[asset].balance THEN "Treasury: insufficient balance"
    ELSE IF recipient = ZeroAddr THEN "Treasury: invalid recipient"
    ELSE IF totalReservesUSD = 0 THEN DivByZero
    ELSE OK

QueueWithdrawal(caller, asset, amount, recipient, reason) ==
    LET id == OperationId(asset, amount, recipient, now, reason)
        op == [asset |-> asset, amount |-> amount, recipient |-> recipient,
               executeAfter |->
                   ExecuteAfterFor(WithdrawalPercentage(asset, amount, totalReservesUSD),
                                   now),
               opType |-> "WITHDRAWAL", executed |-> FALSE, reason |-> reason]
    IN  /\ id \in DOMAIN pendingOperations
           \/ Cardinality(DOMAIN pendingOperations) < MaxPending
        /\ last' = Outcome("queueWithdrawal", amount,
                           QueueWithdrawalErr(caller, asset, amount, recipient))
        /\ IF QueueWithdrawalErr(caller, asset, amount, recipient) = OK
           THEN pendingOperations' =
                    [x \in DOMAIN pendingOperations \cup {id} |->
                        IF x = id THEN op ELSE pendingOperations[x]]
           ELSE UNCHANGED pendingOperations
        /\ UNCHANGED <<reserveAssets, supportedAssets, treasuryPriceFeeds, totalReservesUSD,
                       minimumReserveRatio, maxSingleWithdrawal, timelockDuration,
                       circuitBreakerActive, treasuryPaused, treasuryCall,
                       lastDepegIntervention,
                       treasuryGovernors>>
        /\ UNCHANGED <<envVars, tokenVars, engineVars>>

\* queueWithdrawal where up to MaxQueued operations are kept pending at once
QueueWithdrawalMore(caller, asset, amount, recipient, reason) ==
    LET id == OperationId(asset, amount, recipient, now, reason)
        op == [asset |-> asset, amount |-> amount, recipient |-> recipient,
               executeAfter |->
                   ExecuteAfterFor(WithdrawalPercentage(asset, amount, totalReservesUSD),
                                   now),
               opType |-> "WITHDRAWAL", executed |-> FALSE, reason |-> reason]
    IN  /\ id \in DOMAIN pendingOperations
           \/ Cardinality(DOMAIN pendingOperations) < MaxQueued
        /\ last' = Outcome("queueWithdrawal", amount,
                           QueueWithdrawalErr(caller, asset, amount, recipient))
        /\ IF QueueWithdrawalErr(caller, asset, amount, recipient) = OK
           THEN pendingOperations' =
                    [x \in DOMAIN pendingOperations \cup {id} |->
                        IF x = id THEN op ELSE pendingOperations[x]]
           ELSE UNCHANGED pendingOperations
        /\ UNCHANGED <<reserveAssets, supportedAssets, treasuryPriceFeeds, totalReservesUSD,
                       minimumReserveRatio, maxSingleWithdrawal, timelockDuration,
                       circuitBreakerActive, treasuryPaused, treasuryCall,
                       lastDepegIntervention,
                       treasuryGovernors>>
        /\ UNCHANGED <<envVars, tokenVars, engineVars>>

\* require(block.timestamp >= operation.executeAfter)
TimelockNotExpired(t, executeAfter) == t < executeAfter

\* uint256 newReserveRatio = (newTotalReserves * 10000) / usbSupply;
\* require(newReserveRatio >= minimumReserveRatio)
ReserveRatioTooLow(newTotalReserves, usbSupply) ==
    (newTotalReserves * BPS) \div usbSupply < minimumReserveRatio

\* (mutation: the caller's roles are not looked at)
ExecuteWithdrawalErrAnyone(caller, id) ==
    LET op == OperationAt(id)
        assetValueUSD == AssetValueInUSD(op.asset, op.amount)
    IN  IF treasuryCall.op # "none" THEN Reentrant
        ELSE IF treasuryPaused THEN Paused
        ELSE IF op.executeAfter <= 0 THEN "Treasury: operation not found"
        ELSE IF op.executed THEN "Treasury: already executed"
        ELSE IF TimelockNotExpired(now, op.executeAfter)
             THEN "Treasury: timelock not expired"
        ELSE IF AssetValueErr(op.asset, op.amount) # OK
             THEN AssetValueErr(op.asset, op.amount)
        ELSE IF totalReservesUSD < assetValueUSD THEN Underflow
        ELSE IF totalSupply > 0
                /\ ReserveRatioTooLow(totalReservesUSD - assetValueUSD, totalSupply)
             THEN "Treasury: reserve ratio too low"
        ELSE IF reserveAssets[op.asset].balance < op.amount THEN Underflow
        ELSE ReservesAfterErr(op.asset, reserveAssets[op.asset].balance - op.amount)

\* (mutation: unchecked arithmetic, the subtractions wrap instead of reverting)
ExecuteWithdrawalErrUnchecked(caller, id) ==
    LET op == OperationAt(id)
        assetValueUSD == AssetValueInUSD(op.asset, op.amount)
    IN  IF treasuryCall.op # "none" THEN Reentrant
        ELSE IF treasuryPaused THEN Paused
        ELSE IF op.executeAfter <= 0 THEN "Treasury: operation not found"
        ELSE IF op.executed THEN "Treasury: already executed"
        ELSE IF TimelockNotExpired(now, op.executeAfter)
             THEN "Treasury: timelock not expired"
        ELSE IF caller \notin TreasuryManagers \cup TreasuryGovernors
             THEN "Treasury: unauthorized"
        ELSE IF AssetValueErr(op.asset, op.amount) # OK
             THEN AssetValueErr(op.asset, op.amount)
        ELSE IF totalSupply > 0
                /\ ReserveRatioTooLow(totalReservesUSD - assetValueUSD, totalSupply)
             THEN "Treasury: reserve ratio too low"
        ELSE ReservesAfterErr(op.asset, reserveAssets[op.asset].balance - op.amount)

ExecuteWithdrawalErr(caller, id) ==
    LET op == OperationAt(id)
        assetValueUSD == AssetValueInUSD(op.asset, op.amount)
    IN  IF treasuryCall.op # "none" THEN Reentrant
        ELSE IF treasuryPaused THEN Paused
        ELSE IF op.executeAfter <= 0 THEN "Treasury: operation not found"
        ELSE IF op.executed THEN "Treasury: already executed"
        ELSE IF TimelockNotExpired(now, op.executeAfter)
             THEN "Treasury: timelock not expired"
        ELSE IF caller \notin TreasuryManagers \cup TreasuryGovernors
             THEN "Treasury: unauthorized"
        ELSE IF AssetValueErr(op.asset, op.amount) # OK
             THEN AssetValueErr(op.asset, op.amount)
        ELSE IF totalReservesUSD < assetValueUSD THEN Underflow
        ELSE IF totalSupply > 0
                /\ ReserveRatioTooLow(totalReservesUSD - assetValueUSD, totalSupply)
             THEN "Treasury: reserve ratio too low"
        ELSE IF reserveAssets[op.asset].balance < op.amount THEN Underflow
        ELSE ReservesAfterErr(op.asset, reserveAssets[op.asset].balance - op.amount)

ExecuteWithdrawal(caller, id) ==
    LET op == OperationAt(id)
        after == ReservesAfter(op.asset, reserveAssets[op.asset].balance - op.amount)
    IN  /\ last' = Outcome("executeWithdrawal", op.amount, ExecuteWithdrawalErr(caller, id))
        /\ IF ExecuteWithdrawalErr(caller, id) = OK
           THEN /\ reserveAssets' = after.assets
                /\ totalReservesUSD' = after.total
                /\ pendingOperations' = [pendingOperations EXCEPT ![id].executed = TRUE]
           ELSE UNCHANGED <<reserveAssets, totalReservesUSD, pendingOperations>>
        /\ UNCHANGED <<supportedAssets, treasuryPriceFeeds, minimumReserveRatio, maxSingleWithdrawal,
                       timelockDuration, circuitBreakerActive, treasuryPaused, treasuryCall,
                       lastDepegIntervention,
                       treasuryGovernors>>
        /\ UNCHANGED <<envVars, tokenVars, engineVars>>

\* executeWithdrawal up to its transfer to the recipient: nonReentrant has set
\* _status, the balance is reduced and the operation marked executed, the
\* stored total and the allocation are not updated yet
ExecuteWithdrawalEnter(caller, id) ==
    LET op == OperationAt(id)
    IN  /\ ExecuteWithdrawalErr(caller, id) = OK
        /\ treasuryCall' = [op |-> "executeWithdrawal", id |-> id]
        /\ reserveAssets' = [reserveAssets EXCEPT ![op.asset].balance = @ - op.amount]
        /\ pendingOperations' = [pendingOperations EXCEPT ![id].executed = TRUE]
        /\ last' = Outcome("transfer", op.amount, OK)
        /\ UNCHANGED <<supportedAssets, treasuryPriceFeeds, totalReservesUSD, minimumReserveRatio,
                       maxSingleWithdrawal, timelockDuration, circuitBreakerActive,
                       treasuryPaused, lastDepegIntervention,
                       treasuryGovernors>>
        /\ UNCHANGED <<envVars, tokenVars, engineVars>>

\* executeWithdrawal from the return of the transfer to its own return:
\* _updateTotalReservesUSD(), _updateAssetAllocation(operation.asset)
ExecuteWithdrawalExit ==
    LET asset == treasuryCall.id[1]
        amount == treasuryCall.id[2]
        after == ReservesAfter(asset, reserveAssets[asset].balance)
    IN  /\ treasuryCall.op = "executeWithdrawal"
        /\ treasuryCall' = NoCall
        /\ reserveAssets' = after.assets
        /\ totalReservesUSD' = after.total
        /\ last' = Outcome("executeWithdrawal", amount, OK)
        /\ UNCHANGED <<supportedAssets, treasuryPriceFeeds, minimumReserveRatio, maxSingleWithdrawal,
                       timelockDuration, pendingOperations, circuitBreakerActive,
                       treasuryPaused, lastDepegIntervention,
                       treasuryGovernors>>
        /\ UNCHANGED <<envVars, tokenVars, engineVars>>

RECURSIVE RepegErrFrom(_, _, _)
\* _useReservesForRepeg: the first revert of the loop over supportedAssets, with
\* the balances bal and the amount remaining still to draw
RepegErrFrom(bal, remaining, i) ==
    IF i > Len(supportedAssets) \/ remaining <= 0 THEN OK
    ELSE LET asset == supportedAssets[i]
             assetValue == AssetValueInUSD(asset, bal[asset])
             toUse == IF remaining > assetValue THEN assetValue ELSE remaining
         IN  IF ~(reserveAssets[asset].isStable /\ bal[asset] > 0)
             THEN RepegErrFrom(bal, remaining, i + 1)
             ELSE IF AssetValueErr(asset, bal[asset]) # OK
                  THEN AssetValueErr(asset, bal[asset])
             ELSE IF assetValue = 0 THEN DivByZero
             ELSE RepegErrFrom(bal, remaining - toUse, i + 1)

RECURSIVE RepegBalancesFrom(_, _, _)
\* _useReservesForRepeg: the balances the loop leaves; only assets with isStable
\* are drawn, each by assetAmount = (toUse * balance) / assetValue
RepegBalancesFrom(bal, remaining, i) ==
    IF i > Len(supportedAssets) \/ remaining <= 0 THEN bal
    ELSE LET asset == supportedAssets[i]
             assetValue == AssetValueInUSD(asset, bal[asset])
             toUse == IF remaining > assetValue THEN assetValue ELSE remaining
         IN  IF ~(reserveAssets[asset].isStable /\ bal[asset] > 0)
             THEN RepegBalancesFrom(bal, remaining, i + 1)
             ELSE RepegBalancesFrom(
                      [bal EXCEPT ![asset] = @ - (toUse * bal[asset]) \div assetValue],
                      remaining - toUse, i + 1)

\* _useReservesForRepeg(amount): the balances it leaves and its first revert,
\* that of the loop or of the _updateTotalReservesUSD() that follows it
UseReservesForRepeg(amount) == RepegBalancesFrom(Balances, amount, 1)
UseReservesForRepegErr(amount) ==
    IF RepegErrFrom(Balances, amount, 1) # OK THEN RepegErrFrom(Balances, amount, 1)
    ELSE ReservesErr(UseReservesForRepeg(amount))

\* _isDepegDetected(): return false
IsDepegDetected == FALSE

\* (mutation: the intervention does not read the circuit breaker flag)
EmergencyDepegInterventionErrNoBreaker(caller, usbAmount) ==
    IF caller \notin TreasuryEmergency THEN MissingRole
    ELSE IF treasuryCall.op # "none" THEN Reentrant
    ELSE IF now < lastDepegIntervention + InitMinInterventionInterval
         THEN "Treasury: intervention too soon"
    ELSE IF usbAmount <= 0 THEN "Treasury: invalid USB amount"
    ELSE IF ~IsDepegDetected THEN "Treasury: no depeg detected"
    ELSE IF totalReservesUSD < usbAmount THEN "Treasury: insufficient reserves"
    ELSE UseReservesForRepegErr(usbAmount)

\* emergencyDepegIntervention(usbAmount): the first revert reached, in source order
EmergencyDepegInterventionErr(caller, usbAmount) ==
    IF caller \notin TreasuryEmergency THEN MissingRole
    ELSE IF treasuryCall.op # "none" THEN Reentrant
    ELSE IF circuitBreakerActive THEN "Treasury: circuit breaker active"
    ELSE IF now < lastDepegIntervention + InitMinInterventionInterval
         THEN "Treasury: intervention too soon"
    ELSE IF usbAmount <= 0 THEN "Treasury: invalid USB amount"
    ELSE IF ~IsDepegDetected THEN "Treasury: no depeg detected"
    ELSE IF totalReservesUSD < usbAmount THEN "Treasury: insufficient reserves"
    ELSE UseReservesForRepegErr(usbAmount)

EmergencyDepegIntervention(caller, usbAmount) ==
    LET bal == UseReservesForRepeg(usbAmount)
    IN  /\ last' = Outcome("emergencyDepegIntervention", usbAmount,
                           EmergencyDepegInterventionErr(caller, usbAmount))
        /\ IF EmergencyDepegInterventionErr(caller, usbAmount) = OK
           THEN /\ reserveAssets' =
                      [a \in TreasuryAssets |-> [reserveAssets[a] EXCEPT !.balance = bal[a]]]
                /\ totalReservesUSD' = ReservesUSD(bal)
                /\ lastDepegIntervention' = now
           ELSE UNCHANGED <<reserveAssets, totalReservesUSD, lastDepegIntervention>>
        /\ UNCHANGED <<supportedAssets, treasuryPriceFeeds, minimumReserveRatio, maxSingleWithdrawal,
                       timelockDuration, pendingOperations, circuitBreakerActive,
                       treasuryPaused, treasuryCall, treasuryGovernors>>
        /\ UNCHANGED <<envVars, tokenVars, engineVars>>

\* (mutation: _pause does not revert when the Treasury is already paused)
ActivateCircuitBreakerErrRepeat(caller) ==
    IF caller \notin TreasuryEmergency THEN MissingRole ELSE OK

\* circuitBreakerActive = true; _pause();   (_pause reverts when already paused)
ActivateCircuitBreakerErr(caller) ==
    IF caller \notin TreasuryEmergency THEN MissingRole
    ELSE IF treasuryPaused THEN Paused
    ELSE OK

ActivateCircuitBreaker(caller) ==
    /\ last' = Outcome("activateCircuitBreaker", 0, ActivateCircuitBreakerErr(caller))
    /\ IF ActivateCircuitBreakerErr(caller) = OK
       THEN circuitBreakerActive' = TRUE /\ treasuryPaused' = TRUE
       ELSE UNCHANGED <<circuitBreakerActive, treasuryPaused>>
    /\ UNCHANGED <<reserveAssets, supportedAssets, treasuryPriceFeeds, totalReservesUSD,
                   minimumReserveRatio, maxSingleWithdrawal, timelockDuration,
                   pendingOperations, treasuryCall, lastDepegIntervention,
                   treasuryGovernors>>
    /\ UNCHANGED <<envVars, tokenVars, engineVars>>

\* circuitBreakerActive = false; _unpause();   (_unpause reverts when not paused)
DeactivateCircuitBreakerErr(caller) ==
    IF caller \notin TreasuryAdmins THEN MissingRole
    ELSE IF ~treasuryPaused THEN "Pausable: not paused"
    ELSE OK

DeactivateCircuitBreaker(caller) ==
    /\ last' = Outcome("deactivateCircuitBreaker", 0, DeactivateCircuitBreakerErr(caller))
    /\ IF DeactivateCircuitBreakerErr(caller) = OK
       THEN circuitBreakerActive' = FALSE /\ treasuryPaused' = FALSE
       ELSE UNCHANGED <<circuitBreakerActive, treasuryPaused>>
    /\ UNCHANGED <<reserveAssets, supportedAssets, treasuryPriceFeeds, totalReservesUSD,
                   minimumReserveRatio, maxSingleWithdrawal, timelockDuration,
                   pendingOperations, treasuryCall, lastDepegIntervention,
                   treasuryGovernors>>
    /\ UNCHANGED <<envVars, tokenVars, engineVars>>

(***************************************************************************)
(* Treasury: rebalanceAsset, addSupportedAsset and distributeYield         *)
(***************************************************************************)
\* the last require is the quote read by _updateAssetAllocation
RebalanceAssetErr(caller, asset, newTargetAllocation) ==
    IF caller \notin TreasuryManagers THEN MissingRole
    ELSE IF ~reserveAssets[asset].isSupported THEN "Treasury: asset not supported"
    ELSE IF newTargetAllocation > BPS THEN "Treasury: invalid allocation"
    ELSE IF totalReservesUSD # 0
         THEN AssetValueErr(asset, reserveAssets[asset].balance)
    ELSE OK

RebalanceAsset(caller, asset, newTargetAllocation) ==
    LET err == RebalanceAssetErr(caller, asset, newTargetAllocation)
    IN  /\ last' = Outcome("rebalanceAsset", newTargetAllocation, err)
        /\ reserveAssets' =
              IF err = OK
              THEN [reserveAssets EXCEPT
                      ![asset].targetAllocation = newTargetAllocation,
                      ![asset].lastRebalanceTime = now,
                      ![asset].currentAllocation =
                          AllocationOf(asset, reserveAssets[asset].balance,
                                       totalReservesUSD)]
              ELSE reserveAssets
        /\ UNCHANGED <<supportedAssets, treasuryPriceFeeds, totalReservesUSD,
                       minimumReserveRatio, maxSingleWithdrawal, timelockDuration,
                       pendingOperations, circuitBreakerActive, treasuryPaused,
                       treasuryCall, lastDepegIntervention,
                       treasuryGovernors>>
        /\ UNCHANGED <<envVars, tokenVars, engineVars>>

AddSupportedAssetErr(caller, asset, targetAllocation, priceFeed) ==
    IF caller \notin TreasuryAdmins THEN MissingRole
    ELSE IF reserveAssets[asset].isSupported THEN "Treasury: asset already supported"
    ELSE IF targetAllocation > BPS THEN "Treasury: invalid allocation"
    ELSE IF priceFeed = ZeroAddr THEN "Treasury: invalid price feed"
    ELSE OK

AddSupportedAsset(caller, asset, targetAllocation, priceFeed, isStable) ==
    LET err == AddSupportedAssetErr(caller, asset, targetAllocation, priceFeed)
    IN  /\ last' = Outcome("addSupportedAsset", targetAllocation, err)
        /\ IF err = OK
           THEN /\ reserveAssets' = [reserveAssets EXCEPT ![asset] =
                      [isSupported |-> TRUE, balance |-> 0,
                       targetAllocation |-> targetAllocation, currentAllocation |-> 0,
                       lastRebalanceTime |-> now, yield |-> 0, isStable |-> isStable]]
                /\ treasuryPriceFeeds' = [treasuryPriceFeeds EXCEPT ![asset] = priceFeed]
                /\ supportedAssets' = Append(supportedAssets, asset)
           ELSE UNCHANGED <<reserveAssets, treasuryPriceFeeds, supportedAssets>>
        /\ UNCHANGED <<totalReservesUSD, minimumReserveRatio, maxSingleWithdrawal,
                       timelockDuration, pendingOperations, circuitBreakerActive,
                       treasuryPaused, treasuryCall, lastDepegIntervention,
                       treasuryGovernors>>
        /\ UNCHANGED <<envVars, tokenVars, engineVars>>

\* distributeYield(asset, amount, burnUSB): onlyRole(GOVERNOR_ROLE) nonReentrant;
\* usbToken.burn burns from the Treasury's own balance, and the Treasury holds
\* no USB
\* (mutation: the yield recorded for the asset is not compared with the amount)
DistributeYieldErrAnyAmount(caller, asset, amount, burnUSB) ==
    IF caller \notin TreasuryGovernors THEN MissingRole
    ELSE IF treasuryCall.op # "none" THEN Reentrant
    ELSE IF ~reserveAssets[asset].isSupported THEN "Treasury: asset not supported"
    ELSE IF burnUSB /\ AssetValueErr(asset, amount) # OK THEN AssetValueErr(asset, amount)
    ELSE IF burnUSB /\ AssetValueInUSD(asset, amount) > 0
         THEN "ERC20: burn amount exceeds balance"
    ELSE OK

\* usbToBurn = _getAssetValueInUSD(asset, amount), when burnUSB
YieldBurned(asset, amount, burnUSB) ==
    IF burnUSB THEN AssetValueInUSD(asset, amount) ELSE 0

\* the amount of the asset transferred to msg.sender, when not burnUSB
YieldReleased(amount, burnUSB) == IF burnUSB THEN 0 ELSE amount

DistributeYieldErr(caller, asset, amount, burnUSB) ==
    IF caller \notin TreasuryGovernors THEN MissingRole
    ELSE IF treasuryCall.op # "none" THEN Reentrant
    ELSE IF ~reserveAssets[asset].isSupported THEN "Treasury: asset not supported"
    ELSE IF amount > reserveAssets[asset].yield THEN "Treasury: insufficient yield"
    ELSE IF burnUSB /\ AssetValueErr(asset, amount) # OK THEN AssetValueErr(asset, amount)
    ELSE IF burnUSB /\ AssetValueInUSD(asset, amount) > 0
         THEN "ERC20: burn amount exceeds balance"
    ELSE OK

DistributeYield(caller, asset, amount, burnUSB) ==
    LET err == DistributeYieldErr(caller, asset, amount, burnUSB)
    IN  /\ last' = Outcome("distributeYield", amount, err)
        /\ reserveAssets' =
              IF err = OK THEN [reserveAssets EXCEPT ![asset].yield = @ - amount]
              ELSE reserveAssets
        /\ UNCHANGED <<supportedAssets, treasuryPriceFeeds, totalReservesUSD,
                       minimumReserveRatio, maxSingleWithdrawal, timelockDuration,
                       pendingOperations, circuitBreakerActive, treasuryPaused,
                       treasuryCall, lastDepegIntervention,
                       treasuryGovernors>>
        /\ UNCHANGED <<envVars, tokenVars, engineVars>>

\* grantRole(GOVERNOR_ROLE, account): onlyRole(getRoleAdmin(role)), which is
\* DEFAULT_ADMIN_ROLE
GrantGovernorErr(caller) == IF caller \notin TreasuryAdmins THEN MissingRole ELSE OK

GrantGovernor(caller, account) ==
    /\ last' = Outcome("grantRole", 0, GrantGovernorErr(caller))
    /\ treasuryGovernors' = IF GrantGovernorErr(caller) = OK
                            THEN treasuryGovernors \cup {account}
                            ELSE treasuryGovernors
    /\ UNCHANGED <<reserveAssets, supportedAssets, treasuryPriceFeeds, totalReservesUSD,
                   minimumReserveRatio, maxSingleWithdrawal, timelockDuration,
                   pendingOperations, circuitBreakerActive, treasuryPaused,
                   treasuryCall, lastDepegIntervention>>
    /\ UNCHANGED <<envVars, tokenVars, engineVars>>

(***************************************************************************)
(* Initial states                                                          *)
(***************************************************************************)
StartBlock == 1

EmptyPosition ==
    [totalDeposited |-> 0, usbMinted |-> 0, lastUpdateTimestamp |-> 0,
     collateralTokens |-> <<>>, collateralAmounts |-> [a \in Assets |-> 0]]

NoReserve ==
    [isSupported |-> FALSE, balance |-> 0, targetAllocation |-> 0,
     currentAllocation |-> 0, lastRebalanceTime |-> 0, yield |-> 0, isStable |-> FALSE]

\* setUp(): the feeds, engine.addSupportedToken x 2, treasury.addSupportedAsset x 2
InitEnv ==
    /\ now = StartTime
    /\ blockNumber = StartBlock
    /\ price = [a \in Assets |-> IF a = "weth" THEN InitWethPrice ELSE InitUsdcPrice]
    /\ updatedAt = [a \in Assets |-> StartTime]

InitConfig ==
    /\ maxSupply = InitMaxSupply
    /\ mintingRateLimit = InitMintingRateLimit
    /\ tokenPaused = FALSE
    /\ supportedTokens = [a \in Assets |->
          IF a = "weth"
          THEN [isSupported |-> TRUE, minDepositAmount |-> WethMinDeposit,
                maxDepositAmount |-> WethMaxDeposit, liquidationThreshold |-> 8500,
                stabilityFee |-> 100]
          ELSE [isSupported |-> TRUE, minDepositAmount |-> UsdcMinDeposit,
                maxDepositAmount |-> UsdcMaxDeposit, liquidationThreshold |-> 9500,
                stabilityFee |-> 50]]
    /\ priceFeeds = [a \in Assets |-> a]
    /\ treasuryYieldPercentage = InitTreasuryYieldPercentage
    /\ emergencyThreshold = InitEmergencyThreshold
    /\ enginePaused = FALSE
    /\ engineCall = NoCall
    /\ totalYieldGenerated = 0
    /\ wallet = [u \in Users |-> [a \in Assets |->
          IF u = "user1" THEN (IF a = "weth" THEN User1Weth ELSE User1Usdc)
          ELSE (IF a = "weth" THEN User2Weth ELSE User2Usdc)]]

InitTreasury ==
    /\ reserveAssets = [a \in TreasuryAssets |->
          IF a = "usdc"
          THEN [NoReserve EXCEPT !.isSupported = TRUE, !.targetAllocation = 4000,
                                 !.lastRebalanceTime = StartTime, !.isStable = TRUE]
          ELSE IF a = "weth"
          THEN [NoReserve EXCEPT !.isSupported = TRUE, !.targetAllocation = 3000,
                                 !.lastRebalanceTime = StartTime]
          ELSE NoReserve]
    /\ supportedAssets = <<"usdc", "weth">>
    /\ treasuryPriceFeeds = [a \in TreasuryAssets |-> a]
    /\ totalReservesUSD = 0
    /\ minimumReserveRatio = InitMinimumReserveRatio
    /\ maxSingleWithdrawal = InitMaxSingleWithdrawal
    /\ timelockDuration = InitTimelockDuration
    /\ pendingOperations = <<>>
    /\ circuitBreakerActive = FALSE
    /\ treasuryPaused = FALSE
    /\ treasuryCall = NoCall
    /\ lastDepegIntervention = 0
    /\ treasuryGovernors = {}

\* the state after the initialize() functions and setUp(): no USB exists
Init ==
    /\ InitEnv
    /\ InitConfig
    /\ InitTreasury
    /\ totalSupply = 0
    /\ balances = [u \in Users |-> 0]
    /\ lastMintBlock = 0
    /\ currentBlockMinted = 0
    /\ userDeposits = [u \in Users |-> EmptyPosition]
    /\ totalValueLocked = 0
    /\ strategyValue = 0
    /\ last = Outcome("setUp", 0, OK)

\* A protocol with USB in circulation: user1 holds a position of SeedCollateral
\* weth, deposited at the initial price, and the USB that deposit() computes for
\* it. initialize() never leads here (mint divides by a zero totalSupply); this
\* is the state the position would be in had its mints been accepted, and it is
\* where the operations' behaviour on a positive supply is examined.
SeedCollateral == 60
SeedUsd == (SeedCollateral * InitWethPrice) \div Pow10(FeedDecimals)
SeedUsb == (SeedUsd * BPS) \div MIN_COLLATERAL_RATIO

InitLive ==
    /\ InitEnv
    /\ InitConfig
    /\ InitTreasury
    /\ totalSupply = SeedUsb
    /\ balances = [u \in Users |-> IF u = "user1" THEN SeedUsb ELSE 0]
    /\ lastMintBlock = 0
    /\ currentBlockMinted = 0
    /\ userDeposits = [u \in Users |->
          IF u = "user1"
          THEN [totalDeposited |-> SeedCollateral, usbMinted |-> SeedUsb,
                lastUpdateTimestamp |-> StartTime, collateralTokens |-> <<"weth">>,
                collateralAmounts |->
                    [a \in Assets |-> IF a = "weth" THEN SeedCollateral ELSE 0]]
          ELSE EmptyPosition]
    /\ totalValueLocked = SeedUsd
    /\ strategyValue = SeedCollateral
    /\ last = Outcome("setUp", 0, OK)

(***************************************************************************)
(* Next-state relations                                                    *)
(***************************************************************************)
EnvNext ==
    \/ NextBlock
    \/ \E a \in Assets : \E p \in PriceChoices[a] : UpdatePrice(a, p)

\* the feed reports a zero or negative answer, or time passes without an update
FeedFaultNext ==
    \/ \E dt \in WarpChoices : Warp(dt)
    \/ \E p \in BadPrices : UpdatePrice("weth", p)

TokenNext ==
    \/ \E c \in Callers, to \in {"user1", ZeroAddr}, n \in MintAmounts : Mint(c, to, n)
    \/ \E c \in Callers, n \in MintAmounts : BurnFrom(c, "user1", n)
    \/ \E c \in Callers, n \in CapChoices : SetMaxSupply(c, n)
    \/ \E c \in Callers, n \in LimitChoices : SetMintingRateLimit(c, n)

EngineNext ==
    \/ \E u \in Users, a \in Assets : \E n \in DepositAmounts[u][a] : Deposit(u, a, n)
    \/ \E u \in Users, a \in Assets : \E n \in WithdrawAmounts[u] : Withdraw(u, a, n)

\* a collateral configuration: <<minDeposit, maxDeposit, liquidationThreshold,
\* stabilityFee>>; the first is the one setUp() registers weth with
TokenConfigs == {<<WethMinDeposit, WethMaxDeposit, 8500, 100>>, <<2, 50, 8000, 200>>,
                 <<5, 5, 8500, 100>>}
FeedChoices == {"weth", "usdc", ZeroAddr}
YieldPercentages == {5000, 10001}
ThresholdChoices == {2000}

EngineAdminNext ==
    \/ \E c \in Callers, t \in {"weth", ZeroAddr}, cfg \in TokenConfigs,
          f \in FeedChoices : AddSupportedToken(c, t, cfg[1], cfg[2], cfg[3], cfg[4], f)
    \/ \E c \in Callers, y \in YieldPercentages, e \in ThresholdChoices :
          UpdateParameters(c, y, e)

\* a token the Engine was never given
Unlisted == "dai"

\* withdrawals that name an unlisted token or burn nothing
EngineCheckNext ==
    \/ \E u \in Users : \E n \in WithdrawAmounts[u] : Withdraw(u, Unlisted, n)
    \/ \E u \in Users, a \in Assets : Withdraw(u, a, 0)

\* deposit limits narrow enough for the users' wallets to reach both ends
NarrowMin == 2
NarrowMax == 3
LimitAmounts == (NarrowMin - 1)..(NarrowMax + 1)

\* the admin narrows weth's limits; deposits below, at and above them, and of
\* an unlisted token
EngineLimitNext ==
    \/ AddSupportedToken(Owner, "weth", NarrowMin, NarrowMax, 8500, 100, "weth")
    \/ \E u \in Users, n \in LimitAmounts : Deposit(u, "weth", n)
    \/ \E u \in Users : Deposit(u, Unlisted, NarrowMax)

PausedAmounts == {0, 2}

\* the token paused and unpaused, and the token's minters calling it directly
TokenPauseNext ==
    \/ \E c \in Callers : TokenPause(c)
    \/ \E c \in Callers : TokenUnpause(c)
    \/ \E c \in Callers, n \in PausedAmounts : Mint(c, "user1", n)
    \/ \E c \in Callers, n \in PausedAmounts : BurnFrom(c, "user1", n)

EnginePauseNext ==
    \/ \E c \in Callers : EmergencyPause(c)
    \/ \E c \in Callers : Unpause(c)

\* one deposit or withdraw in progress, seen at each of its calls out; while it
\* is in progress the callee may call back into the Engine (EngineNext)
EngineCallNext ==
    \/ \E u \in Users, a \in Assets : \E n \in DepositAmounts[u][a] : DepositEnter(u, a, n)
    \/ DepositAdvance
    \/ DepositForward
    \/ DepositExit
    \/ \E u \in Users, a \in Assets : \E n \in WithdrawAmounts[u] : WithdrawEnter(u, a, n)
    \/ WithdrawExit

TreasuryNext ==
    \/ \E c \in Callers, a \in TreasuryAssets, n \in ReserveAmounts :
          TreasuryDeposit(c, a, n)
    \/ \E c \in Callers, a \in Assets, n \in QueueAmounts, r \in Recipients,
          why \in Reasons : QueueWithdrawal(c, a, n, r, why)
    \/ \E c \in Callers, id \in DOMAIN pendingOperations \cup {UnknownId} :
          ExecuteWithdrawal(c, id)
    \/ \E c \in Callers : ActivateCircuitBreaker(c)
    \/ \E c \in Callers : DeactivateCircuitBreaker(c)

\* the Treasury's deposits and withdrawals, several of them queued at once
TreasuryQueueNext ==
    \/ \E c \in Callers, a \in Assets, n \in ReserveAmounts : TreasuryDeposit(c, a, n)
    \/ \E c \in Callers, a \in Assets, n \in QueueAmounts, r \in Recipients,
          why \in Reasons : QueueWithdrawalMore(c, a, n, r, why)
    \/ \E c \in Callers, id \in DOMAIN pendingOperations \cup {UnknownId} :
          ExecuteWithdrawal(c, id)

YieldAmounts == {0, 3}

\* the governor role granted, yield distributed, and one call of each other
\* operation of the Treasury by the holder of its role
TreasuryYieldNext ==
    \/ \E c \in Callers : GrantGovernor(c, "user1")
    \/ \E c \in Callers, a \in {"weth", ZeroAddr}, n \in YieldAmounts, b \in BOOLEAN :
          DistributeYield(c, a, n, b)
    \/ AddSupportedAsset(Owner, ZeroAddr, 5000, "weth", FALSE)
    \/ RebalanceAsset(Owner, "weth", 3000)
    \/ EmergencyDepegIntervention(Owner, 3)
    \/ \E a \in {"weth", ZeroAddr}, n \in ReserveAmounts : TreasuryDeposit(Owner, a, n)
    \/ QueueWithdrawal(Owner, "weth", 3, Owner, "ops")
    \/ \E id \in DOMAIN pendingOperations : ExecuteWithdrawal(Owner, id)
    \/ ActivateCircuitBreaker(Owner)
    \/ DeactivateCircuitBreaker(Owner)

\* the answers a feed may be given: zero, negative, or the one set at deployment
FeedAnswers == [a \in Assets |-> BadPrices \cup {IF a = "weth" THEN InitWethPrice ELSE InitUsdcPrice}]

\* the Treasury's deposits and withdrawals by the manager while time passes and
\* either feed may fail or go stale
TreasuryFeedNext ==
    \/ \E dt \in WarpChoices : Warp(dt)
    \/ \E a \in Assets : \E p \in FeedAnswers[a] : UpdatePrice(a, p)
    \/ \E a \in Assets, n \in ReserveAmounts : TreasuryDeposit(Owner, a, n)
    \/ \E a \in Assets, n \in QueueAmounts : QueueWithdrawal(Owner, a, n, Owner, "ops")
    \/ \E id \in DOMAIN pendingOperations : ExecuteWithdrawal(Owner, id)

\* one executeWithdrawal in progress, seen at its transfer; while it is in
\* progress the recipient may call back into the Treasury (TreasuryNext)
TreasuryCallNext ==
    \/ \E c \in Callers, id \in DOMAIN pendingOperations : ExecuteWithdrawalEnter(c, id)
    \/ ExecuteWithdrawalExit

\* one call of each role-gated operation, by each caller; setMintingRateLimit,
\* addSupportedToken and rebalanceAsset are called with the values in force
RolesNext ==
    \E c \in Callers :
        \/ Mint(c, "user1", 2)
        \/ BurnFrom(c, "user1", 2)
        \/ SetMaxSupply(c, 46)
        \/ SetMintingRateLimit(c, InitMintingRateLimit)
        \/ AddSupportedToken(c, "weth", WethMinDeposit, WethMaxDeposit, 8500, 100, "weth")
        \/ UpdateParameters(c, 5000, 2000)
        \/ EmergencyPause(c)
        \/ Unpause(c)
        \/ TreasuryDeposit(c, "weth", 20)
        \/ QueueWithdrawal(c, "weth", 1, Owner, "ops")
        \/ \E id \in DOMAIN pendingOperations \cup {UnknownId} : ExecuteWithdrawal(c, id)
        \/ EmergencyDepegIntervention(c, 3)
        \/ RebalanceAsset(c, "weth", 3000)
        \/ AddSupportedAsset(c, ZeroAddr, 5000, "weth", FALSE)
        \/ ActivateCircuitBreaker(c)
        \/ DeactivateCircuitBreaker(c)
        \/ DistributeYield(c, "weth", 0, FALSE)

TreasuryDepegNext ==
    \E c \in Callers, n \in InterventionAmounts : EmergencyDepegIntervention(c, n)

Next == TokenPauseNext \/ TreasuryYieldNext \/ TreasuryFeedNext \/ EngineLimitNext \/ EngineCheckNext \/ RolesNext \/ EngineAdminNext \/ TreasuryQueueNext \/ TreasuryDepegNext \/ TreasuryCallNext \/ EngineCallNext \/ EnvNext \/ FeedFaultNext \/ TokenNext \/ EngineNext \/ EnginePauseNext \/ TreasuryNext

\* the whole protocol as deployed
Spec == Init /\ [][Next]_vars

\* the token alone: as deployed, and also with USB in circulation
SpecToken == Init /\ [][NextBlock \/ TokenNext]_vars
SpecTokenLive == (Init \/ InitLive) /\ [][NextBlock \/ TokenNext]_vars

\* the Treasury with its feeds: as deployed, and with USB in circulation
SpecTreasury == Init /\ [][EnvNext \/ TreasuryNext]_vars
SpecTreasuryLive == InitLive /\ [][EnvNext \/ TreasuryNext]_vars

\* the Treasury with its emergency intervention
SpecTreasuryDepeg == Init /\ [][EnvNext \/ TreasuryNext \/ TreasuryDepegNext]_vars

\* the Treasury with several withdrawals queued at once, at constant prices
SpecTreasuryQueue == Init /\ [][NextBlock \/ TreasuryQueueNext]_vars

\* the Engine and the token with USB in circulation, the token paused at times
SpecTokenPause == InitLive /\ [][TokenPauseNext \/ EngineNext]_vars

\* every operation of the Treasury, with the governor role granted or not
SpecTreasuryYield ==
    Init /\ [][NextBlock \/ TreasuryYieldNext]_vars

\* the Treasury's reserves while the feeds of both assets may fail or go stale
SpecTreasuryFeeds == Init /\ [][TreasuryFeedNext]_vars

\* the Treasury where the recipient of a withdrawal calls back into it
SpecTreasuryReentry ==
    Init /\ [][EnvNext \/ TreasuryNext \/ TreasuryDepegNext \/ TreasuryCallNext]_vars

\* the Engine with its feeds, strategy, Treasury and token, with USB in circulation
SpecEngineLive == InitLive /\ [][EnvNext \/ EngineNext]_vars

\* the role-gated operations of the three contracts, at constant time and prices
SpecRoles == Init /\ [][RolesNext]_vars

\* the Engine from the seeded position, with calls that fail its validation
SpecEngineChecks == InitLive /\ [][EnvNext \/ EngineNext \/ EngineCheckNext]_vars

\* the Engine from the seeded position, with deposits around the limits
SpecEngineLimits == InitLive /\ [][NextBlock \/ EngineLimitNext]_vars

\* the Engine with its administration
SpecEngineAdmin == Init /\ [][NextBlock \/ EngineNext \/ EngineAdminNext]_vars

\* the same, where the holders of EMERGENCY_ROLE and DEFAULT_ADMIN_ROLE pause
\* and unpause the Engine
SpecEnginePause == InitLive /\ [][EnvNext \/ EngineNext \/ EnginePauseNext]_vars

\* the Engine where quotes also go stale and feeds report non-positive answers
SpecEngineFeeds == InitLive /\ [][FeedFaultNext \/ EngineNext]_vars

\* the Engine where the contracts it calls out to call back into it
SpecEngineReentry ==
    InitLive /\ [][EngineCallNext \/ EngineNext \/ EnginePauseNext]_vars

\* the Engine and the token as deployed
SpecEngine == Init /\ [][EnvNext \/ EngineNext \/ TokenNext]_vars

\* the same, where the owner, who holds MINTER_ROLE, also mints directly
OwnerMint == \E n \in OwnerMintAmounts : Mint(Owner, "user1", n)
SpecProtocolLive == InitLive /\ [][EnvNext \/ EngineNext \/ OwnerMint]_vars

(***************************************************************************)
(* Token Supply Controller                                                 *)
(***************************************************************************)
\* the step is a mint call by a MINTER_ROLE holder, to a non-zero address, of a
\* positive amount within the supply cap, on an unpaused token
MintWithinCap ==
    /\ last'.op = "mint"
    /\ last'.err \notin {MissingRole, Paused, "USB: mint to zero address"}
    /\ last'.amount > 0
    /\ totalSupply + last'.amount <= maxSupply

\* C3: a mint into a zero supply, to a non-zero address, of a positive amount
\* within the supply cap and the rate limit, is accepted (the circuit breaker
\* does not reject the first mint) and leaves totalSupply = amount.
C3_FirstMintAccepted ==
    [][(MintWithinCap /\ totalSupply = 0 /\ last'.amount <= mintingRateLimit)
          => (last'.err = OK /\ totalSupply' = last'.amount)]_vars

\* C4: totalSupply never exceeds maxSupply; a mint that would exceed the cap is
\* rejected for that reason; setMaxSupply below the current supply is rejected.
C4_SupplyCap ==
    /\ totalSupply <= maxSupply
    /\ \A n \in MintAmounts :
          (n > 0 /\ ~tokenPaused /\ totalSupply + n > maxSupply)
              => MintErr(Owner, "user1", n) = "USB: exceeds max supply"
    /\ \A cap \in CapChoices :
          cap < totalSupply => SetMaxSupplyErr(Owner, cap) = "USB: max supply too low"

\* the supply grew up to the cap, where a mint is refused, and a setMaxSupply
\* below the supply was just rejected
C4_Witness ==
    /\ totalSupply > SeedUsb
    /\ totalSupply = maxSupply
    /\ last.op = "setMaxSupply" /\ last.err = "USB: max supply too low"
    /\ \E n \in MintAmounts : MintErr(Owner, "user1", n) = "USB: exceeds max supply"

\* C5: a mint that brings the amount minted in the current block to exactly
\* mintingRateLimit is accepted, one that brings it above is rejected; a new
\* block resets the amount minted in the current block.
C5_RateLimitReset ==
    [][MintWithinCap =>
          /\ MintedThisBlock + last'.amount = mintingRateLimit => last'.err = OK
          /\ MintedThisBlock + last'.amount > mintingRateLimit => last'.err # OK]_vars

\* C6: with a positive supply, a mint that passes the cap and the rate limit is
\* rejected exactly when floor(amount * 10000 / totalSupply) > 1000.
C6_BreakerBoundary ==
    totalSupply > 0 =>
        \A n \in MintAmounts :
            (n > 0 /\ ~tokenPaused /\ totalSupply + n <= maxSupply
                   /\ MintedThisBlock + n <= mintingRateLimit)
                => ((MintErr(Owner, "user1", n) # OK)
                        <=> ((n * 10000) \div totalSupply > 1000))

\* a mint of exactly 10% of the supply was just accepted
C6_Witness ==
    /\ last.op = "mint" /\ last.err = OK
    /\ last.amount * 10 = totalSupply - last.amount
(***************************************************************************)
(* Treasury                                                                *)
(***************************************************************************)
\* C7: once an operation's executed flag is true it never becomes false again
\* and its other fields never change, so that executeWithdrawal succeeds at
\* most once per operation identifier, also when queueWithdrawal is called
\* again with identical parameters at the same timestamp.
C7_ExecutedIsFinal ==
    [][\A id \in DOMAIN pendingOperations :
          pendingOperations[id].executed
              => /\ id \in DOMAIN pendingOperations'
                 /\ pendingOperations'[id] = pendingOperations[id]]_vars

\* the operation id was queued with a timelock: executeAfter is later than the
\* block.timestamp that went into the identifier
QueuedWithTimelock(id) == pendingOperations[id].executeAfter > id[4]

\* every asset whose quote executeWithdrawal of operation id reads has a
\* positive quote that is at most MAX_PRICE_AGE old
QuotesReadAreValid(id) ==
    \A a \in Assets :
        (a = pendingOperations[id].asset \/ reserveAssets[a].balance > 0)
            => (price[a] > 0 /\ now - updatedAt[a] <= 3600)

\* the reserves at the current prices once operation id has been paid out
ReservesLeftAtCurrentPrices(id) ==
    ReservesUSD(Balances)
        - ToUSD(pendingOperations[id].asset, pendingOperations[id].amount)

\* the balance and reserve-ratio conditions of operation id: the Treasury holds
\* the amount, and what is left of the reserves covers the supply at
\* minimumReserveRatio
BalanceAndRatioHold(id) ==
    /\ reserveAssets[pendingOperations[id].asset].balance
          >= pendingOperations[id].amount
    /\ ReservesLeftAtCurrentPrices(id) >= 0
    /\ \/ totalSupply = 0
       \/ (ReservesLeftAtCurrentPrices(id) * 10000) \div totalSupply
              >= minimumReserveRatio

\* C8: executeWithdrawal never succeeds before the operation's executeAfter;
\* for an operation queued with a timelock and not yet executed, a call at or
\* after executeAfter by an authorized caller, with the balance and
\* reserve-ratio conditions satisfied (the Treasury not paused, the quotes it
\* reads positive and fresh), succeeds.
C8_TimelockSafety ==
    \A id \in DOMAIN pendingOperations :
        /\ now < pendingOperations[id].executeAfter
              => \A c \in Callers : ExecuteWithdrawalErr(c, id) # OK
        /\ (/\ QueuedWithTimelock(id)
            /\ ~pendingOperations[id].executed
            /\ now >= pendingOperations[id].executeAfter
            /\ ~treasuryPaused
            /\ QuotesReadAreValid(id)
            /\ BalanceAndRatioHold(id))
              => ExecuteWithdrawalErr(Owner, id) = OK

\* C9: a successful queueWithdrawal sets executeAfter = now + timelockDuration
\* exactly when the USD value of amount, as a basis-point share of
\* totalReservesUSD, exceeds maxSingleWithdrawal, and executeAfter = now
\* otherwise.
C9_TimelockByUsdShare ==
    [][(last'.op = "queueWithdrawal" /\ last'.err = OK)
          => \A id \in DOMAIN pendingOperations' :
                (id \notin DOMAIN pendingOperations
                     \/ pendingOperations'[id] # pendingOperations[id])
                  => pendingOperations'[id].executeAfter =
                         IF (ToUSD(id[1], id[2]) * 10000) \div totalReservesUSD
                                > maxSingleWithdrawal
                         THEN now + timelockDuration
                         ELSE now]_vars

Collateralized(deps, user) ==
    deps[user].usbMinted > 0
        => CollateralValueFrom(deps[user].collateralTokens,
                               deps[user].collateralAmounts, 1) * 10000
               >= deps[user].usbMinted * 15000

RECURSIVE SumUsbMinted(_, _)
\* the sum of usbMinted over the positions deps of the users in S
SumUsbMinted(deps, S) ==
    IF S = {} THEN 0
    ELSE LET u == CHOOSE x \in S : TRUE
         IN  deps[u].usbMinted + SumUsbMinted(deps, S \ {u})

DepositMintAmount(token, amount) ==
    (((amount * price[token]) \div Pow10(FeedDecimals)) * 10000) \div 15000

\* deposit(token, amount) by user passes the Engine's own validation, has a
\* fresh positive quote, and its mint is positive and within the supply cap and
\* the rate limit
DepositIsValid(user, token, amount) ==
    /\ ~enginePaused /\ ~tokenPaused
    /\ supportedTokens[token].isSupported
    /\ amount >= supportedTokens[token].minDepositAmount
    /\ amount <= supportedTokens[token].maxDepositAmount
    /\ wallet[user][token] >= amount
    /\ price[token] > 0 /\ now - updatedAt[token] <= 3600
    /\ DepositMintAmount(token, amount) > 0
    /\ totalSupply + DepositMintAmount(token, amount) <= maxSupply
    /\ MintedThisBlock + DepositMintAmount(token, amount) <= mintingRateLimit

\* C12: a successful deposit(token, amount) mints to the user, and adds to the
\* position's usbMinted, exactly floor(floor(amount * price / 10^decimals) *
\* 10000 / 15000); a valid deposit on an empty system (no USB minted yet)
\* succeeds.
C12_DepositMintAmount ==
    [][\A u \in Users, a \in Assets : \A n \in DepositAmounts[u][a] :
          Deposit(u, a, n) =>
              /\ last'.err = OK =>
                    /\ balances'[u] = balances[u] + DepositMintAmount(a, n)
                    /\ userDeposits'[u].usbMinted
                          = userDeposits[u].usbMinted + DepositMintAmount(a, n)
              /\ (totalSupply = 0 /\ DepositIsValid(u, a, n)) => last'.err = OK]_vars

\* the position of user holds one deposit of token made into an empty position,
\* nothing withdrawn since, and usbMinted is what that deposit mints at the
\* current quote
SingleDeposit(user, token) ==
    /\ userDeposits[user].collateralTokens = <<token>>
    /\ userDeposits[user].collateralAmounts[token] > 0
    /\ userDeposits[user].totalDeposited = userDeposits[user].collateralAmounts[token]
    /\ userDeposits[user].usbMinted
          = DepositMintAmount(token, userDeposits[user].totalDeposited)

JustDeposited(user, token) ==
    /\ last.op = "deposit" /\ last.err = OK
    /\ SingleDeposit(user, token)
    /\ userDeposits[user].totalDeposited = last.amount
    /\ userDeposits[user].lastUpdateTimestamp = now

C16_RejectedChangesNothing ==
    [][(last'.op \in {"deposit", "withdraw"} /\ last'.err # OK)
          => UNCHANGED <<tokenVars, engineVars, treasuryVars>>]_vars

\* a deposit was rejected by the Treasury's yield deposit, the step after the
\* transfer, the strategy call and the position update
C16_Witness ==
    /\ last.op = "deposit" /\ last.err = "Treasury: unauthorized"
    /\ totalSupply > 0
    /\ wallet["user2"]["usdc"] = User2Usdc

\* C17: while the Engine is paused every deposit and withdraw call is rejected
\* with "Pausable: paused" and changes no state of the token, the Engine, the
\* strategy or the Treasury; the pause is lifted only by unpause called by a
\* holder of DEFAULT_ADMIN_ROLE, which changes nothing but the pause flag, and
\* from then on no deposit or withdraw is rejected for the pause.
C17_PausedRejectsAll ==
    /\ [][(enginePaused /\ last'.op \in {"deposit", "withdraw"})
             => (last'.err = Paused
                 /\ UNCHANGED <<tokenVars, engineVars, treasuryVars>>)]_vars
    /\ [][(enginePaused /\ ~enginePaused') => \E c \in EngineAdmins : Unpause(c)]_vars
    /\ [][(last'.op = "unpause" /\ last'.err = OK)
             => (~enginePaused'
                 /\ UNCHANGED <<tokenVars, treasuryVars, userDeposits,
                                totalValueLocked, supportedTokens, wallet>>)]_vars
    /\ [](~enginePaused =>
            \A u \in Users, a \in Assets :
               /\ \A n \in DepositAmounts[u][a] : DepositErr(u, a, n) # Paused
               /\ \A n \in WithdrawAmounts[u] : WithdrawErr(u, a, n) # Paused)

\* the Engine is paused and a deposit that the user's wallet covers has just
\* been rejected for it
C17_Witness ==
    /\ enginePaused
    /\ last.op = "deposit" /\ last.err = Paused
    /\ wallet["user2"]["weth"] >= last.amount

\* the quote of an asset that the contract requires: price > 0 and
\* now - updatedAt <= 3600
ValidQuote(a) == price[a] > 0 /\ now - updatedAt[a] <= 3600

\* the assets _getUserTotalCollateralValue prices for the user
HeldAssets(u) ==
    {a \in Assets : userDeposits[u].collateralAmounts[a] > 0
                     /\ TokenExists(userDeposits[u].collateralTokens, a)}

\* C18: every successful Engine deposit or withdraw used, for each asset it
\* priced, a quote with price > 0 and now - updatedAt <= 3600; a deposit or
\* withdraw whose asset quote is older than 3600 seconds or has price <= 0 is
\* rejected; a quote of age exactly 3600 is not rejected as stale.
C18_PriceValidation ==
    /\ [][\A u \in Users, a \in Assets :
            /\ \A n \in DepositAmounts[u][a] :
                  (Deposit(u, a, n) /\ last'.err = OK) => ValidQuote(a)
            /\ \A n \in WithdrawAmounts[u] :
                  (Withdraw(u, a, n) /\ last'.err = OK)
                     => /\ ValidQuote(a)
                        /\ userDeposits[u].usbMinted > n
                              => \A b \in HeldAssets(u) : ValidQuote(b)]_vars
    /\ [](\A u \in Users, a \in Assets :
            (price[a] <= 0 \/ now - updatedAt[a] > 3600)
               => /\ \A n \in DepositAmounts[u][a] : DepositErr(u, a, n) # OK
                  /\ \A n \in WithdrawAmounts[u] : WithdrawErr(u, a, n) # OK)
    /\ [](\A u \in Users, a \in Assets :
            (price[a] > 0 /\ now - updatedAt[a] = 3600)
               => /\ \A n \in DepositAmounts[u][a] :
                        DepositErr(u, a, n) # "Engine: stale price"
                  /\ (\A b \in Assets : ValidQuote(b))
                        => \A n \in WithdrawAmounts[u] :
                              WithdrawErr(u, a, n) # "Engine: stale price")

\* a deposit has just succeeded on quotes that are exactly 3600 seconds old
C18_Witness ==
    /\ last.op = "deposit" /\ last.err = OK
    /\ \A a \in Assets : now - updatedAt[a] = 3600

\* the steps of deposit that come before the strategy is called all pass:
\* not paused, token supported, amount within its limits, transfer covered
ReachesStrategy(user, token, amount) ==
    /\ ~enginePaused
    /\ supportedTokens[token].isSupported
    /\ amount >= supportedTokens[token].minDepositAmount
    /\ amount <= supportedTokens[token].maxDepositAmount
    /\ wallet[user][token] >= amount
    /\ price[token] > 0 /\ now - updatedAt[token] <= 3600

\* C19: an Engine deposit for which the strategy returns yield y with
\* floor(y * treasuryYieldPercentage / 10000) > 0 succeeds and increases the
\* Treasury's reserves, balance and totalReservesUSD, by that share.
C19_YieldReachesTreasury ==
    [][\A u \in Users, a \in Assets : \A n \in DepositAmounts[u][a] :
          (/\ Deposit(u, a, n)
           /\ ReachesStrategy(u, a, n)
           /\ TreasuryShare(StrategyYield(n)) > 0)
             => /\ last'.err = OK
                /\ reserveAssets'[ZeroAddr].balance =
                      reserveAssets[ZeroAddr].balance + TreasuryShare(StrategyYield(n))
                /\ totalReservesUSD' =
                      totalReservesUSD + TreasuryShare(StrategyYield(n))]_vars

\* C20: while circuitBreakerActive is true no state-mutating Treasury operation
\* (deposit, queueWithdrawal, executeWithdrawal) succeeds, the reserves and the
\* pending operations stay as they are, and the flag is cleared only by
\* deactivateCircuitBreaker called by a holder of DEFAULT_ADMIN_ROLE.
C20_BreakerHaltsTreasury ==
    /\ [][(circuitBreakerActive
             /\ last'.op \in {"treasuryDeposit", "queueWithdrawal", "executeWithdrawal"})
             => last'.err # OK]_vars
    /\ [][circuitBreakerActive
             => UNCHANGED <<reserveAssets, supportedAssets, totalReservesUSD,
                            pendingOperations, minimumReserveRatio,
                            maxSingleWithdrawal, timelockDuration>>]_vars
    /\ [][(circuitBreakerActive /\ ~circuitBreakerActive')
             => \E c \in TreasuryAdmins : DeactivateCircuitBreaker(c)]_vars

\* the USD value, at the current quotes, of what a draw takes out of the
\* balances before to leave the balances after
DrawnUSD(before, after) == ReservesUSD(before) - ReservesUSD(after)

\* the balances of the assets not classified stable are untouched unless every
\* stable asset has been emptied
StableFirst(before, after) ==
    (\E a \in Assets : ~reserveAssets[a].isStable /\ after[a] < before[a])
        => \A a \in Assets : reserveAssets[a].isStable => after[a] = 0

\* the USD value that integer rounding of one unit of the asset can lose
UnitValue(a) == 1 + price[a] \div Pow10(FeedDecimals)
RoundingSlack == UnitValue("weth") + UnitValue("usdc")

\* C21: the draw of emergencyDepegIntervention(x), made when the reserves, whose
\* stored total is their value at the current fresh quotes, cover x, reduces the reserve balances by a total USD value equal to x up to
\* integer rounding, taking from stable-classified assets first and from other
\* assets only for the remainder.
C21_DrawCoversAmount ==
    \A x \in InterventionAmounts :
        (/\ x > 0 /\ totalReservesUSD >= x
         /\ \A a \in Assets : price[a] > 0 /\ now - updatedAt[a] <= 3600
         /\ totalReservesUSD = ReservesUSD(Balances)
         /\ UseReservesForRepegErr(x) = OK)
            => /\ DrawnUSD(Balances, UseReservesForRepeg(x)) <= x
               /\ DrawnUSD(Balances, UseReservesForRepeg(x)) >= x - RoundingSlack
               /\ StableFirst(Balances, UseReservesForRepeg(x))

\* C22: emergencyDepegIntervention is rejected, with the balances, the stored
\* total and lastDepegIntervention unchanged, whenever the circuit breaker flag
\* is active, or now < lastDepegIntervention + minInterventionInterval, or the
\* depeg check reports no depeg; a holder of EMERGENCY_ROLE is told which of
\* the three it was, in that order; lastDepegIntervention is only ever set to
\* now, and then only when the interval since its old value has elapsed.
C22_InterventionGated ==
    /\ [][(/\ last'.op = "emergencyDepegIntervention"
            /\ \/ circuitBreakerActive
               \/ now < lastDepegIntervention + InitMinInterventionInterval
               \/ ~IsDepegDetected)
             => (last'.err # OK
                 /\ UNCHANGED <<reserveAssets, totalReservesUSD,
                                lastDepegIntervention>>)]_vars
    /\ [](\A c \in TreasuryEmergency, x \in InterventionAmounts :
            /\ circuitBreakerActive
                  => EmergencyDepegInterventionErr(c, x) = "Treasury: circuit breaker active"
            /\ (~circuitBreakerActive
                /\ now < lastDepegIntervention + InitMinInterventionInterval)
                  => EmergencyDepegInterventionErr(c, x) = "Treasury: intervention too soon"
            /\ (~circuitBreakerActive /\ x > 0 /\ ~IsDepegDetected
                /\ now >= lastDepegIntervention + InitMinInterventionInterval)
                  => EmergencyDepegInterventionErr(c, x) = "Treasury: no depeg detected")
    /\ [][lastDepegIntervention' # lastDepegIntervention
             => (lastDepegIntervention' = now
                 /\ now >= lastDepegIntervention + InitMinInterventionInterval)]_vars

\* with the breaker inactive, the interval elapsed and reserves that cover the
\* amount, an intervention by the emergency role was rejected for want of a depeg
C22_Witness ==
    /\ last.op = "emergencyDepegIntervention"
    /\ last.err = "Treasury: no depeg detected"
    /\ last.amount > 0 /\ totalReservesUSD >= last.amount
    /\ ~circuitBreakerActive
    /\ now >= lastDepegIntervention + InitMinInterventionInterval

\* C23: while an Engine deposit or withdraw is in progress, at any of its calls
\* out, every nested call of deposit or withdraw is rejected with
\* "ReentrancyGuard: reentrant call" and changes nothing, and no step taken
\* before the call in progress resumes changes a Position.
C23_EngineNotReentered ==
    /\ [][(engineCall.op # "none" /\ engineCall' = engineCall
            /\ last'.op \in {"deposit", "withdraw"})
             => (last'.err = Reentrant
                 /\ UNCHANGED <<tokenVars, engineVars, treasuryVars>>)]_vars
    /\ [][(engineCall.op # "none" /\ engineCall' = engineCall)
             => UNCHANGED userDeposits]_vars
    /\ [](engineCall.op # "none" =>
            \A u \in Users, a \in Assets :
               /\ \A n \in DepositAmounts[u][a] : DepositErr(u, a, n) = Reentrant
               /\ \A n \in WithdrawAmounts[u] : WithdrawErr(u, a, n) = Reentrant)

\* a withdraw is at its call to the strategy, the USB burned and the position
\* not yet reduced, and a nested withdraw that the position would cover has
\* just been rejected
C23_Witness ==
    /\ engineCall.op = "withdraw"
    /\ last.op = "withdraw" /\ last.err = Reentrant
    /\ userDeposits[engineCall.user].usbMinted > balances[engineCall.user]
    /\ userDeposits["user1"].usbMinted >= last.amount

\* C24: while a Treasury operation is in progress, in particular during the
\* transfer to the recipient inside executeWithdrawal, no nested call of a
\* state-mutating Treasury entry point (deposit, queueWithdrawal,
\* executeWithdrawal, emergencyDepegIntervention) succeeds.
C24_TreasuryNotReentered ==
    [][(treasuryCall.op # "none" /\ treasuryCall' = treasuryCall
        /\ last'.op \in {"treasuryDeposit", "queueWithdrawal", "executeWithdrawal",
                          "emergencyDepegIntervention"})
         => last'.err # OK]_vars

\* C25: after every completed Treasury operation the stored currentAllocation
\* of every supported reserve asset equals floor(USD value of its balance *
\* 10000 / totalReservesUSD), 0 when totalReservesUSD is 0, and the stored
\* allocations of all assets sum to at most 10000.
C25_AllocationsFresh ==
    (last.op \in {"treasuryDeposit", "queueWithdrawal", "executeWithdrawal"}
     /\ last.err = OK /\ treasuryCall.op = "none")
        => /\ \A a \in Assets :
                 reserveAssets[a].isSupported
                    => reserveAssets[a].currentAllocation
                         = AllocationOf(a, reserveAssets[a].balance, totalReservesUSD)
           /\ reserveAssets["weth"].currentAllocation
                 + reserveAssets["usdc"].currentAllocation <= 10000

\* a queued withdrawal that asks for more of its asset than the Treasury holds
Overdraws(id) ==
    /\ ~pendingOperations[id].executed
    /\ pendingOperations[id].amount > reserveAssets[pendingOperations[id].asset].balance

\* C26: in every state every reserve asset's balance and totalReservesUSD are
\* >= 0, and a queued withdrawal that asks for more than the balance left of
\* its asset, because other queued withdrawals were executed first, is rejected
\* when executed.
C26_ReservesNonNegative ==
    /\ totalReservesUSD >= 0
    /\ \A a \in TreasuryAssets : reserveAssets[a].balance >= 0
    /\ \A id \in DOMAIN pendingOperations, c \in Callers :
          Overdraws(id) => ExecuteWithdrawalErr(c, id) # OK

\* two withdrawals of one asset were queued, one was executed, and the
\* execution of the other, which the balance no longer covers, has just been
\* rejected by the checked subtraction
C26_Witness ==
    /\ last.op = "executeWithdrawal" /\ last.err = Underflow
    /\ \E id1, id2 \in DOMAIN pendingOperations :
          /\ id1 # id2
          /\ pendingOperations[id1].asset = pendingOperations[id2].asset
          /\ pendingOperations[id1].executed
          /\ Overdraws(id2)
          /\ pendingOperations[id2].amount = last.amount
          /\ now >= pendingOperations[id2].executeAfter

\* the user's position after a withdrawal of usbAmount against token, as the
\* statement gives it
PositionAfterWithdraw(u, t, usbAmount) ==
    LET taken == (((usbAmount * 15000) \div 10000) * Pow10(FeedDecimals)) \div price[t]
    IN  /\ userDeposits'[u].usbMinted = userDeposits[u].usbMinted - usbAmount
        /\ userDeposits'[u].collateralAmounts[t]
              = userDeposits[u].collateralAmounts[t] - taken
        /\ \A o \in Assets \ {t} :
              userDeposits'[u].collateralAmounts[o] = userDeposits[u].collateralAmounts[o]

\* C27: a successful withdraw(asset, stableAmount) burns exactly stableAmount
\* from the user's token balance, decreases the position's usbMinted by
\* stableAmount and the user's amount of that asset by
\* floor(floor(stableAmount * 15000 / 10000) * 10^decimals / price), and leaves
\* the user's other assets and all other users' positions and balances unchanged.
C27_WithdrawEffect ==
    [][(last'.op = "withdraw" /\ last'.err = OK)
          => \E u \in Users, t \in Assets :
                /\ balances'[u] = balances[u] - last'.amount
                /\ totalSupply' = totalSupply - last'.amount
                /\ PositionAfterWithdraw(u, t, last'.amount)
                /\ \A o \in Users \ {u} :
                      /\ userDeposits'[o] = userDeposits[o]
                      /\ balances'[o] = balances[o]]_vars

\* a withdrawal has succeeded and left its user with a smaller, open position
C27_Witness ==
    /\ last.op = "withdraw" /\ last.err = OK
    /\ \E u \in Users :
          /\ userDeposits[u].usbMinted > 0
          /\ userDeposits[u].usbMinted < SeedUsb
          /\ userDeposits[u].collateralAmounts["weth"] > 0
          /\ userDeposits[u].collateralAmounts["weth"] < SeedCollateral

\* C28: a second addSupportedToken call for an asset that is already supported
\* is rejected and leaves that asset's configuration (limits, thresholds,
\* oracle reference) unchanged.
C28_RegisteredOnce ==
    [][\A c \in Callers, t \in Assets, cfg \in TokenConfigs, f \in FeedChoices :
          (supportedTokens[t].isSupported
           /\ AddSupportedToken(c, t, cfg[1], cfg[2], cfg[3], cfg[4], f))
             => /\ last'.err # OK
                /\ supportedTokens'[t] = supportedTokens[t]
                /\ priceFeeds'[t] = priceFeeds[t]]_vars

\* the call that has just been made was rejected and changed no state
RejectedUnchanged ==
    /\ last'.err # OK
    /\ UNCHANGED <<envVars, tokenVars, engineVars, treasuryVars>>

\* C29: a call of a role-gated operation by a caller who holds none of the
\* capabilities the operation requires is rejected and changes no state.
C29_Authorization ==
    [][\A c \in Callers :
        /\ (c \notin TokenMinters /\ (Mint(c, "user1", 2) \/ BurnFrom(c, "user1", 2)))
              => RejectedUnchanged
        /\ (c \notin TokenAdmins /\ (SetMaxSupply(c, 46) \/ SetMintingRateLimit(c, InitMintingRateLimit)))
              => RejectedUnchanged
        /\ (c \notin EngineAdmins
              /\ (\/ AddSupportedToken(c, "weth", WethMinDeposit, WethMaxDeposit, 8500, 100, "weth")
                  \/ UpdateParameters(c, 5000, 2000)
                  \/ Unpause(c)))
              => RejectedUnchanged
        /\ (c \notin EngineEmergency /\ EmergencyPause(c)) => RejectedUnchanged
        /\ (c \notin TreasuryManagers /\ c # UsbAddr /\ TreasuryDeposit(c, "weth", 20))
              => RejectedUnchanged
        /\ (c \notin TreasuryManagers
              /\ (QueueWithdrawal(c, "weth", 1, Owner, "ops") \/ RebalanceAsset(c, "weth", 3000)))
              => RejectedUnchanged
        /\ (c \notin TreasuryManagers \cup TreasuryGovernors
              /\ \E id \in DOMAIN pendingOperations \cup {UnknownId} :
                    ExecuteWithdrawal(c, id))
              => RejectedUnchanged
        /\ (c \notin TreasuryEmergency
              /\ (EmergencyDepegIntervention(c, 3) \/ ActivateCircuitBreaker(c)))
              => RejectedUnchanged
        /\ (c \notin TreasuryAdmins
              /\ (\/ AddSupportedAsset(c, ZeroAddr, 5000, "weth", FALSE)
                  \/ DeactivateCircuitBreaker(c)))
              => RejectedUnchanged
        /\ (c \notin TreasuryGovernors /\ DistributeYield(c, "weth", 0, FALSE))
              => RejectedUnchanged]_vars

\* a caller without a role has just been refused the execution of a queued
\* withdrawal that is due and that a manager could execute
C29_Witness ==
    /\ last.op = "executeWithdrawal" /\ last.err = "Treasury: unauthorized"
    /\ \E id \in DOMAIN pendingOperations :
          /\ ExecuteWithdrawalErr("user1", id) = "Treasury: unauthorized"
          /\ ExecuteWithdrawalErr(Owner, id) = OK

\* the USD value, at the current quotes, of everything user u has deposited
HeldValueUSD(u) ==
    LET v(a) == IF userDeposits[u].collateralAmounts[a] > 0
                THEN (userDeposits[u].collateralAmounts[a] * price[a])
                        \div Pow10(FeedDecimals)
                ELSE 0
    IN  v("weth") + v("usdc")

\* C30: a withdraw that leaves the user with usbMinted - stableAmount > 0
\* succeeds only if (the USD value of all the user's held assets at the current
\* quotes - floor(stableAmount * 15000 / 10000)) * 10000
\* / (usbMinted - stableAmount) >= 15000; a rejected withdraw changes no state.
C30_WithdrawSolvencyGuard ==
    [][last'.op = "withdraw"
         => /\ \A u \in Users :
                  (/\ last'.err = OK
                   /\ userDeposits'[u].usbMinted < userDeposits[u].usbMinted
                   /\ userDeposits[u].usbMinted - last'.amount > 0)
                     => ((HeldValueUSD(u) - (last'.amount * 15000) \div 10000) * 10000)
                           \div (userDeposits[u].usbMinted - last'.amount) >= 15000
            /\ last'.err # OK
                  => UNCHANGED <<envVars, tokenVars, engineVars, treasuryVars>>]_vars

\* a partial withdrawal has just been rejected for the ratio it would leave:
\* the quote fell after the position was opened
C30_Witness ==
    /\ last.op = "withdraw" /\ last.err = "Engine: insufficient collateralization"
    /\ \E u \in Users :
          /\ userDeposits[u].usbMinted > last.amount
          /\ ((HeldValueUSD(u) - (last.amount * 15000) \div 10000) * 10000)
                \div (userDeposits[u].usbMinted - last.amount) < 15000

\* the asset amount a withdrawal of usbAmount against token t is computed to
\* release
AssetAmountFor(t, usbAmount) ==
    (((usbAmount * 15000) \div 10000) * Pow10(FeedDecimals)) \div price[t]

\* a withdraw call that breaks one of the five preconditions
BadWithdraw(u, t, usbAmount) ==
    \/ t \notin Assets
    \/ ~supportedTokens[t].isSupported
    \/ usbAmount = 0
    \/ usbAmount > userDeposits[u].usbMinted
    \/ userDeposits[u].collateralAmounts[t] = 0
    \/ (price[t] > 0 /\ AssetAmountFor(t, usbAmount) > userDeposits[u].collateralAmounts[t])

WithdrawInputs == {0, 2, 10, 40}

\* C31: withdraw(asset, stableAmount) is rejected with no state change if the
\* asset is unsupported, stableAmount is 0, stableAmount exceeds the user's
\* usbMinted, the user's deposited amount of the asset is 0, or the computed
\* asset amount exceeds that deposited amount; no per-asset deposited amount
\* and no usbMinted is ever below 0.
C31_WithdrawPreconditions ==
    /\ [](\A u \in Users :
             /\ userDeposits[u].usbMinted >= 0
             /\ \A a \in Assets : userDeposits[u].collateralAmounts[a] >= 0
             /\ \A t \in Assets \cup {Unlisted}, n \in WithdrawInputs :
                   BadWithdraw(u, t, n) => WithdrawErr(u, t, n) # OK)
    /\ [][(last'.op = "withdraw" /\ last'.err # OK)
             => UNCHANGED <<envVars, tokenVars, engineVars, treasuryVars>>]_vars

\* a withdrawal has just been rejected because, at the fallen quote, it asks
\* for more of the asset than the user has deposited
C31_Witness ==
    /\ last.op = "withdraw" /\ last.err = "Engine: insufficient collateral"
    /\ \E u \in Users :
          /\ last.amount <= userDeposits[u].usbMinted
          /\ AssetAmountFor("weth", last.amount) > userDeposits[u].collateralAmounts["weth"]
          /\ userDeposits[u].collateralAmounts["weth"] > 0

\* the outcomes of deposit's three validation checks
ValidationErrors ==
    {"Engine: token not supported", "Engine: amount too small", "Engine: amount too large"}

\* C32: an Engine deposit is rejected before any state mutation if the asset
\* is not supported, amount < minDepositAmount or amount > maxDepositAmount;
\* amounts equal to minDepositAmount and to maxDepositAmount are accepted.
C32_DepositValidation ==
    /\ [](\A u \in Users, n \in LimitAmounts :
             /\ DepositErr(u, Unlisted, n) # OK
             /\ (n < supportedTokens["weth"].minDepositAmount
                  \/ n > supportedTokens["weth"].maxDepositAmount)
                   => DepositErr(u, "weth", n) # OK
             /\ (n = supportedTokens["weth"].minDepositAmount
                  \/ n = supportedTokens["weth"].maxDepositAmount)
                   => DepositErr(u, "weth", n) \notin ValidationErrors)
    /\ [][(last'.op = "deposit" /\ last'.err # OK)
             => UNCHANGED <<envVars, tokenVars, engineVars, treasuryVars>>]_vars

\* a deposit of exactly maxDepositAmount has just succeeded for a user who had
\* before deposited exactly minDepositAmount
C32_Witness ==
    /\ last.op = "deposit" /\ last.err = OK
    /\ last.amount = supportedTokens["weth"].maxDepositAmount
    /\ last.amount = NarrowMax
    /\ userDeposits["user1"].collateralAmounts["weth"]
          = SeedCollateral + NarrowMin + NarrowMax
    /\ userDeposits["user1"].lastUpdateTimestamp = now

\* the call out at which the Engine call in progress stands, if any
CallAt(call) == IF call.op = "none" THEN "none" ELSE call.at

FaultyReserve(b) ==
    /\ reserveAssets[b].balance > 0
    /\ AssetValueErr(b, reserveAssets[b].balance)
          \in {"Treasury: invalid price", "Treasury: stale price"}

SomeFaultyReserve == \E i \in 1..Len(supportedAssets) : FaultyReserve(supportedAssets[i])

\* C35: while the Treasury holds a supported asset whose quote is stale or not
\* positive, deposit and executeWithdrawal are rejected for every asset, the
\* assets with a fresh quote included, and change nothing.
C35_FaultBlocksAllAssets ==
    /\ [](SomeFaultyReserve =>
            \A c \in Callers :
               /\ \A a \in TreasuryAssets, n \in ReserveAmounts :
                     TreasuryDepositErr(c, a, n, IF a = ZeroAddr THEN n ELSE 0) # OK
               /\ \A id \in DOMAIN pendingOperations : ExecuteWithdrawalErr(c, id) # OK)
    /\ [][(SomeFaultyReserve /\ last'.op \in {"treasuryDeposit", "executeWithdrawal"})
             => (last'.err # OK /\ UNCHANGED treasuryVars)]_vars

\* the withdrawal of an asset whose own quote is fresh, its timelock over, has
\* just been rejected because the other asset held cannot be valued
C35_Witness ==
    \E id \in DOMAIN pendingOperations :
        LET op == OperationAt(id)
        IN  /\ ~op.executed /\ ~TimelockNotExpired(now, op.executeAfter)
            /\ op.amount > 0 /\ op.amount < reserveAssets[op.asset].balance
            /\ AssetValueErr(op.asset, op.amount) = OK
            /\ ~FaultyReserve(op.asset)
            /\ SomeFaultyReserve
            /\ last.op = "executeWithdrawal"
            /\ last.err \in {"Treasury: invalid price", "Treasury: stale price"}
            /\ ExecuteWithdrawalErr(Owner, id) = last.err

\* C36: every reserve asset's accumulated yield is 0 in every reachable state,
\* so distributeYield with amount > 0 is always rejected (for a holder of
\* GOVERNOR_ROLE on a supported asset, as insufficient yield), and an accepted
\* distributeYield burns no USB and releases no asset.
C36_YieldStaysZero ==
    /\ \A a \in TreasuryAssets : reserveAssets[a].yield = 0
    /\ (last.op = "distributeYield" /\ last.err = OK) => last.amount = 0
    /\ \A c \in Callers, a \in TreasuryAssets, n \in YieldAmounts, b \in BOOLEAN :
          /\ n > 0 => DistributeYieldErr(c, a, n, b) # OK
          /\ (n > 0 /\ c \in TreasuryGovernors /\ reserveAssets[a].isSupported)
                => DistributeYieldErr(c, a, n, b) = "Treasury: insufficient yield"
          /\ DistributeYieldErr(c, a, n, b) = OK
                => (YieldBurned(a, n, b) = 0 /\ YieldReleased(n, b) = 0)

\* a holder of GOVERNOR_ROLE has just asked for a positive amount of yield
\* while the Treasury holds reserves, and was refused for lack of yield
C36_Witness ==
    /\ "user1" \in TreasuryGovernors
    /\ last.op = "distributeYield" /\ last.amount > 0
    /\ last.err = "Treasury: insufficient yield"
    /\ totalReservesUSD > 0
    /\ DistributeYieldErr("user1", "weth", 0, FALSE) = OK

\* C37: in every reachable Treasury state circuitBreakerActive is true exactly
\* when the Treasury is paused; activateCircuitBreaker is rejected when the
\* breaker is already active and deactivateCircuitBreaker is rejected when it
\* is not active, both leaving the Treasury as it was.
C37_BreakerIffPaused ==
    /\ [](circuitBreakerActive <=> treasuryPaused)
    /\ [](\A c \in Callers :
            /\ circuitBreakerActive => ActivateCircuitBreakerErr(c) # OK
            /\ ~circuitBreakerActive => DeactivateCircuitBreakerErr(c) # OK)
    /\ [][(\/ circuitBreakerActive /\ last'.op = "activateCircuitBreaker"
           \/ ~circuitBreakerActive /\ last'.op = "deactivateCircuitBreaker")
             => (last'.err # OK /\ UNCHANGED treasuryVars)]_vars

\* the emergency role has just tried to activate the breaker a second time
C37_Witness ==
    /\ circuitBreakerActive /\ treasuryPaused
    /\ last.op = "activateCircuitBreaker" /\ last.err = Paused
    /\ DeactivateCircuitBreakerErr(Owner) = OK

\* no asset appears twice in the list
NoDuplicates(toks) == \A i, j \in 1..Len(toks) : toks[i] = toks[j] => i = j

\* C38: Engine withdraw never changes a position's totalDeposited or its list
\* of held assets; totalDeposited never decreases under any operation, and the
\* list never loses an asset and holds each asset at most once, also when the
\* amount held of an asset has dropped to 0.
C38_DepositedAndListKept ==
    /\ [][last'.op = "withdraw"
             => \A u \in Users :
                   /\ userDeposits'[u].totalDeposited = userDeposits[u].totalDeposited
                   /\ userDeposits'[u].collateralTokens = userDeposits[u].collateralTokens]_vars
    /\ [][\A u \in Users :
             /\ userDeposits'[u].totalDeposited >= userDeposits[u].totalDeposited
             /\ \A t \in Assets :
                   TokenExists(userDeposits[u].collateralTokens, t)
                      => TokenExists(userDeposits'[u].collateralTokens, t)]_vars
    /\ [](\A u \in Users : NoDuplicates(userDeposits[u].collateralTokens))

\* a withdraw has just emptied a user's holding of an asset, which is still
\* listed, the total deposited still counting what was returned
C38_Witness ==
    /\ last.op = "withdraw" /\ last.err = OK
    /\ \E u \in Users, t \in Assets :
          /\ userDeposits[u].collateralAmounts[t] = 0
          /\ TokenExists(userDeposits[u].collateralTokens, t)
          /\ userDeposits[u].totalDeposited > 0

\* C39: while the token is paused every mint and burnFrom is rejected, and
\* therefore every Engine deposit and withdraw is rejected and leaves the
\* Engine's positions and totals (and the token) unchanged, although the
\* Engine itself is not paused.
C39_TokenPauseHaltsEngine ==
    /\ [](tokenPaused =>
            /\ \A c \in Callers \cup {EngineAddr}, u \in Users, n \in MintAmounts :
                  MintErr(c, u, n) # OK /\ BurnFromErr(c, u, n) # OK
            /\ \A u \in Users, a \in Assets :
                  /\ \A n \in DepositAmounts[u][a] : DepositErr(u, a, n) # OK
                  /\ \A n \in WithdrawAmounts[u] : WithdrawErr(u, a, n) # OK)
    /\ [][(tokenPaused /\ last'.op \in {"mint", "burnFrom", "deposit", "withdraw"})
             => (last'.err # OK /\ UNCHANGED <<tokenVars, engineVars>>)]_vars

\* with the token paused and the Engine not, a withdraw that the user's
\* position and balance cover has just been rejected as paused
C39_Witness ==
    /\ tokenPaused /\ ~enginePaused
    /\ last.op = "withdraw" /\ last.err = Paused /\ last.amount > 0
    /\ \E u \in Users :
          userDeposits[u].usbMinted >= last.amount /\ balances[u] >= last.amount

====
